---- MODULE Spec2Model ----
(***************************************************************************)
(* Workflow graph model of n8n-cli: the typed node list, the name-keyed    *)
(* adjacency index (ConnectionsMap) with its flat form (Connection), the   *)
(* mutation API of TypedWorkflow, the differ and the node/connection       *)
(* commands that fetch, mutate and upload a workflow.                      *)
(***************************************************************************)
EXTENDS Integers, Sequences, FiniteSets, Bags, TLC

VARIABLES
    nodes,        \* TypedWorkflow.nodes of the graph under mutation
    connections,  \* TypedWorkflow.connections of the graph under mutation
    last,         \* the last mutation-API call: operation, arguments, result, graph before
    edges,        \* a flat edge list handed to to_connections_map
    cmap,         \* the ConnectionsMap built from it
    flat,         \* the flat list read back by from_connections_map
    old,          \* first workflow handed to WorkflowDiff::compare
    new,          \* second workflow handed to WorkflowDiff::compare
    diff,         \* the WorkflowDiff computed from them
    remote,       \* the workflow stored on the remote platform
    cmd           \* the last command run: what it was, how it ended, what it uploaded

apiVars == <<nodes, connections, last>>
rtVars == <<edges, cmap, flat>>
diffVars == <<old, new, diff>>
cliVars == <<remote, cmd>>
vars == <<nodes, connections, last, edges, cmap, flat, old, new, diff, remote, cmd>>

----------------------------------------------------------------------------
(* Bounds of the model *)

MaxNodes == 2   \* nodes in the graph under mutation
MaxEdges == 2   \* endpoints in an adjacency index
MaxPort == 1    \* highest port number of an edge

----------------------------------------------------------------------------
(* Option values: None is the empty sequence, Some(x) the one-element one *)

None == <<>>
Some(x) == <<x>>
IsSome(o) == Len(o) = 1
Unwrap(o) == o[1]

Range(s) == {s[i] : i \in 1..Len(s)}

Min(S) == CHOOSE x \in S : \A y \in S : x <= y

RECURSIVE Concat(_)
Concat(ss) == IF Len(ss) = 0 THEN <<>> ELSE Head(ss) \o Concat(Tail(ss))

SeqToBag(s) ==
    LET vals == {s[i] : i \in 1..Len(s)}
    IN [v \in vals |-> Cardinality({i \in 1..Len(s) : s[i] = v})]

(* HashMap primitives: a map is a function whose domain is its key set *)
EmptyMap == [k \in {} |-> <<>>]
MapInsert(m, k, v) == [x \in (DOMAIN m) \cup {k} |-> IF x = k THEN v ELSE m[x]]
MapRemove(m, k) == [x \in (DOMAIN m) \ {k} |-> m[x]]

----------------------------------------------------------------------------
(* models/connection.rs *)

ConnectionEndpoint(node, connection_type, index) ==
    [node |-> node, connection_type |-> connection_type, index |-> index]

new_full(source_node, source_output, source_type, target_node, target_input, target_type) ==
    [source_node |-> source_node, source_output |-> source_output,
     source_type |-> source_type, target_node |-> target_node,
     target_input |-> target_input, target_type |-> target_type]

(* Every string of the model, in one fixed order; a HashMap hands its keys out
   in an order of its own, which the callers of from_connections_map pass in. *)
StrOrder == <<"A", "B", "n1", "n2", "Old", "New", "main", "ai_tool", "Start">>

KeysInOrder(order, m) == SelectSeq(order, LAMBDA k : k \in DOMAIN m)

FlatTargets(source_node, output_type, output_index, targets) ==
    [i \in 1..Len(targets) |->
        new_full(source_node, output_index, output_type,
                 targets[i].node, targets[i].index, targets[i].connection_type)]

FlatOutputs(source_node, output_type, output_indices) ==
    Concat([p \in 1..Len(output_indices) |->
        FlatTargets(source_node, output_type, p - 1, output_indices[p])])

from_connections_map_in(map, order) ==
    LET srcs == KeysInOrder(order, map)
    IN Concat([s \in 1..Len(srcs) |->
          LET outputs == map[srcs[s]]
              typs == KeysInOrder(order, outputs)
          IN Concat([t \in 1..Len(typs) |->
                FlatOutputs(srcs[s], typs[t], outputs[typs[t]])])])

from_connections_map(map) == from_connections_map_in(map, StrOrder)

RECURSIVE PadTo(_, _)
PadTo(indices, n) == IF Len(indices) >= n THEN indices ELSE PadTo(Append(indices, <<>>), n)

(* add_to_map putting the endpoint at the front of its slot *)
add_to_map_prepending(map, conn) ==
    LET outputs == IF conn.source_node \in DOMAIN map THEN map[conn.source_node] ELSE EmptyMap
        indices == IF conn.source_type \in DOMAIN outputs THEN outputs[conn.source_type] ELSE <<>>
        padded == PadTo(indices, conn.source_output + 1)
        pushed == [padded EXCEPT ![conn.source_output + 1] =
                      <<ConnectionEndpoint(conn.target_node, conn.target_type,
                                           conn.target_input)>> \o @]
    IN MapInsert(map, conn.source_node, MapInsert(outputs, conn.source_type, pushed))

add_to_map(map, conn) ==
    LET outputs == IF conn.source_node \in DOMAIN map THEN map[conn.source_node] ELSE EmptyMap
        indices == IF conn.source_type \in DOMAIN outputs THEN outputs[conn.source_type] ELSE <<>>
        padded == PadTo(indices, conn.source_output + 1)
        pushed == [padded EXCEPT ![conn.source_output + 1] =
                      Append(@, ConnectionEndpoint(conn.target_node, conn.target_type,
                                                   conn.target_input))]
    IN MapInsert(map, conn.source_node, MapInsert(outputs, conn.source_type, pushed))

(* to_connections_map pushing a new slot instead of padding up to the port *)
RECURSIVE to_connections_map_unpadded(_, _)
to_connections_map_unpadded(conns, n) ==
    IF n = 0 THEN EmptyMap
    ELSE LET map == to_connections_map_unpadded(conns, n - 1)
             conn == conns[n]
             outputs == IF conn.source_node \in DOMAIN map THEN map[conn.source_node] ELSE EmptyMap
             indices == IF conn.source_type \in DOMAIN outputs THEN outputs[conn.source_type] ELSE <<>>
             padded == IF Len(indices) > conn.source_output THEN indices ELSE Append(indices, <<>>)
             slot == IF Len(indices) > conn.source_output THEN conn.source_output + 1 ELSE Len(padded)
             pushed == [padded EXCEPT ![slot] =
                           Append(@, ConnectionEndpoint(conn.target_node, conn.target_type,
                                                        conn.target_input))]
         IN MapInsert(map, conn.source_node, MapInsert(outputs, conn.source_type, pushed))

RECURSIVE to_connections_map_upto(_, _)
to_connections_map_upto(conns, n) ==
    IF n = 0 THEN EmptyMap
    ELSE LET map == to_connections_map_upto(conns, n - 1)
             conn == conns[n]
             outputs == IF conn.source_node \in DOMAIN map THEN map[conn.source_node] ELSE EmptyMap
             indices == IF conn.source_type \in DOMAIN outputs THEN outputs[conn.source_type] ELSE <<>>
             padded == PadTo(indices, conn.source_output + 1)
             pushed == [padded EXCEPT ![conn.source_output + 1] =
                           Append(@, ConnectionEndpoint(conn.target_node, conn.target_type,
                                                        conn.target_input))]
         IN MapInsert(map, conn.source_node, MapInsert(outputs, conn.source_type, pushed))

to_connections_map(conns) == to_connections_map_upto(conns, Len(conns))

Retain(targets, to_node) == SelectSeq(targets, LAMBDA t : t.node # to_node)

(* remove_from_map reaching the source through entry().or_default() *)
remove_from_map_inserting(map, from_node, to_node) ==
    LET outputs == IF from_node \in DOMAIN map THEN map[from_node] ELSE EmptyMap
        kept == [ty \in DOMAIN outputs |->
                   [p \in 1..Len(outputs[ty]) |-> Retain(outputs[ty][p], to_node)]]
        removed == \E ty \in DOMAIN outputs : \E p \in 1..Len(outputs[ty]) :
                       Len(kept[ty][p]) < Len(outputs[ty][p])
    IN [map |-> MapInsert(map, from_node, kept), removed |-> removed]

(* remove_from_map dropping the slots it has emptied *)
remove_from_map_dropping(map, from_node, to_node) ==
    IF from_node \in DOMAIN map
    THEN LET outputs == map[from_node]
             kept == [ty \in DOMAIN outputs |->
                        [p \in 1..Len(outputs[ty]) |-> Retain(outputs[ty][p], to_node)]]
             removed == \E ty \in DOMAIN outputs : \E p \in 1..Len(outputs[ty]) :
                            Len(kept[ty][p]) < Len(outputs[ty][p])
             dropped == [ty \in DOMAIN outputs |->
                           SelectSeq(kept[ty], LAMBDA targets : Len(targets) > 0)]
         IN [map |-> MapInsert(map, from_node, dropped), removed |-> removed]
    ELSE [map |-> map, removed |-> FALSE]

remove_from_map(map, from_node, to_node) ==
    IF from_node \in DOMAIN map
    THEN LET outputs == map[from_node]
             kept == [ty \in DOMAIN outputs |->
                        [p \in 1..Len(outputs[ty]) |-> Retain(outputs[ty][p], to_node)]]
             removed == \E ty \in DOMAIN outputs : \E p \in 1..Len(outputs[ty]) :
                            Len(kept[ty][p]) < Len(outputs[ty][p])
         IN [map |-> MapInsert(map, from_node, kept), removed |-> removed]
    ELSE [map |-> map, removed |-> FALSE]

----------------------------------------------------------------------------
(* models/node.rs, models/workflow.rs *)

Position(x, y) == [x |-> x, y |-> y]

EmptyObject == [k \in {} |-> ""]

NodeNew(id, name, node_type) ==
    [id |-> id, name |-> name, node_type |-> node_type, position |-> Position(0, 0),
     parameters |-> EmptyObject, disabled |-> FALSE]

Matches(ns, node_id) ==
    {i \in 1..Len(ns) : ns[i].id = node_id \/ ns[i].name = node_id}

find_node(ns, node_id) ==
    IF Matches(ns, node_id) = {} THEN None ELSE Some(ns[Min(Matches(ns, node_id))])

get_node_name(ns, node_id) ==
    IF IsSome(find_node(ns, node_id)) THEN Some(Unwrap(find_node(ns, node_id)).name) ELSE None

add_node(ns, node) == Append(ns, node)

RemoveAt(s, pos) == [i \in 1..(Len(s) - 1) |-> IF i < pos THEN s[i] ELSE s[i + 1]]

RetainAll(conns, node_name) ==
    [k \in DOMAIN conns |->
        [ty \in DOMAIN conns[k] |->
            [p \in 1..Len(conns[k][ty]) |-> Retain(conns[k][ty][p], node_name)]]]

(* remove_node dropping the outgoing entry only *)
remove_node_outgoing_only(ns, conns, node_id) ==
    IF find_node(ns, node_id) = None
    THEN [nodes |-> ns, connections |-> conns, result |-> None]
    ELSE LET node_name == Unwrap(find_node(ns, node_id)).name
             pos == Min(Matches(ns, node_id))
         IN [nodes |-> RemoveAt(ns, pos),
             connections |-> MapRemove(conns, node_name),
             result |-> Some(ns[pos])]

remove_node(ns, conns, node_id) ==
    IF find_node(ns, node_id) = None
    THEN [nodes |-> ns, connections |-> conns, result |-> None]
    ELSE LET node_name == Unwrap(find_node(ns, node_id)).name
             pos == Min(Matches(ns, node_id))
         IN [nodes |-> RemoveAt(ns, pos),
             connections |-> RetainAll(MapRemove(conns, node_name), node_name),
             result |-> Some(ns[pos])]

connections_flat(conns) == from_connections_map(conns)

add_connection(conns, conn) == add_to_map(conns, conn)

UnwrapOr(o, dflt) == IF IsSome(o) THEN Unwrap(o) ELSE dflt

remove_connection(ns, conns, from_node, to_node) ==
    LET from_name == UnwrapOr(get_node_name(ns, from_node), from_node)
        to_name == UnwrapOr(get_node_name(ns, to_node), to_node)
    IN remove_from_map(conns, from_name, to_name)

node_names(ns) == {ns[i].name : i \in 1..Len(ns)}

(* rename_node_in_connections re-keying the source entry only *)
rename_node_in_connections_keys_only(conns, old_name, new_name) ==
    IF old_name \in DOMAIN conns
    THEN MapInsert(MapRemove(conns, old_name), new_name, conns[old_name])
    ELSE conns

rename_node_in_connections(conns, old_name, new_name) ==
    LET rekeyed == IF old_name \in DOMAIN conns
                   THEN MapInsert(MapRemove(conns, old_name), new_name, conns[old_name])
                   ELSE conns
    IN [k \in DOMAIN rekeyed |->
          [ty \in DOMAIN rekeyed[k] |->
              [p \in 1..Len(rekeyed[k][ty]) |->
                  [i \in 1..Len(rekeyed[k][ty][p]) |->
                      IF rekeyed[k][ty][p][i].node = old_name
                      THEN [rekeyed[k][ty][p][i] EXCEPT !.node = new_name]
                      ELSE rekeyed[k][ty][p][i]]]]]

(* cli: the node found by find_node_mut gets a new name (main.rs, NodesAction::Update) *)
set_node_name(ns, node_id, new_name) ==
    IF Matches(ns, node_id) = {} THEN ns
    ELSE [ns EXCEPT ![Min(Matches(ns, node_id))].name = new_name]

----------------------------------------------------------------------------
(* diff/workflow_diff.rs *)

Workflow(name, active, ns, conns) ==
    [name |-> name, active |-> active, nodes |-> ns, connections |-> conns]

Max(S) == CHOOSE x \in S : \A y \in S : x >= y

(* Keys of a JSON object in the order serde_json's map keeps them *)
JsonKeyOrder == <<"method", "url">>

(* serde_json::to_string_pretty of an object of string members, as lines *)
to_string_pretty(value) ==
    LET keys == KeysInOrder(JsonKeyOrder, value)
    IN IF Len(keys) = 0 THEN << <<"{}">> >>
       ELSE << <<"{">> >>
            \o [i \in 1..Len(keys) |->
                  <<"  ", keys[i], ": ", value[keys[i]], IF i < Len(keys) THEN "," ELSE "">>]
            \o << <<"}">> >>

RECURSIVE LcsLen(_, _)
LcsLen(a, b) ==
    IF Len(a) = 0 \/ Len(b) = 0 THEN 0
    ELSE IF Head(a) = Head(b) THEN 1 + LcsLen(Tail(a), Tail(b))
    ELSE IF LcsLen(Tail(a), b) >= LcsLen(a, Tail(b))
         THEN LcsLen(Tail(a), b) ELSE LcsLen(a, Tail(b))

(* TextDiff::from_lines(a, b).iter_all_changes(): each line tagged "-"
   (Delete), "+" (Insert) or " " (Equal) *)
RECURSIVE iter_all_changes(_, _)
iter_all_changes(a, b) ==
    IF Len(a) = 0 THEN [i \in 1..Len(b) |-> <<"+", b[i]>>]
    ELSE IF Len(b) = 0 THEN [i \in 1..Len(a) |-> <<"-", a[i]>>]
    ELSE IF Head(a) = Head(b)
         THEN << <<" ", Head(a)>> >> \o iter_all_changes(Tail(a), Tail(b))
    ELSE IF LcsLen(Tail(a), b) >= LcsLen(a, Tail(b))
         THEN << <<"-", Head(a)>> >> \o iter_all_changes(Tail(a), b)
         ELSE << <<"+", Head(b)>> >> \o iter_all_changes(a, Tail(b))

NodeChange(kind, was, now) == [kind |-> kind, was |-> was, now |-> now]

params_change(o, n) ==
    LET old_params == to_string_pretty(o.parameters)
        new_params == to_string_pretty(n.parameters)
        unified == iter_all_changes(old_params, new_params)
    IN IF old_params # new_params /\ Len(unified) > 0
       THEN << [kind |-> "ParametersChanged", unified |-> unified] >>
       ELSE <<>>

(* node_changes comparing the old x with the new y *)
node_changes_xy(o, n) ==
    (IF o.name # n.name THEN <<NodeChange("NameChanged", o.name, n.name)>> ELSE <<>>)
    \o (IF o.node_type # n.node_type
        THEN <<NodeChange("TypeChanged", o.node_type, n.node_type)>> ELSE <<>>)
    \o (IF o.position.x # n.position.y \/ o.position.y # n.position.y
        THEN <<NodeChange("PositionChanged", <<o.position.x, o.position.y>>,
                          <<n.position.x, n.position.y>>)>>
        ELSE <<>>)
    \o (IF o.disabled # n.disabled
        THEN <<NodeChange("DisabledChanged", o.disabled, n.disabled)>> ELSE <<>>)
    \o params_change(o, n)

node_changes(o, n) ==
    (IF o.name # n.name THEN <<NodeChange("NameChanged", o.name, n.name)>> ELSE <<>>)
    \o (IF o.node_type # n.node_type
        THEN <<NodeChange("TypeChanged", o.node_type, n.node_type)>> ELSE <<>>)
    \o (IF o.position.x # n.position.x \/ o.position.y # n.position.y
        THEN <<NodeChange("PositionChanged", <<o.position.x, o.position.y>>,
                          <<n.position.x, n.position.y>>)>>
        ELSE <<>>)
    \o (IF o.disabled # n.disabled
        THEN <<NodeChange("DisabledChanged", o.disabled, n.disabled)>> ELSE <<>>)
    \o params_change(o, n)

(* compare_nodes reporting a node with no change as well *)
compare_nodes_unfiltered(o, n) ==
    Some([node_id |-> o.id, node_name |-> o.name, changes |-> node_changes(o, n)])

compare_nodes(o, n) ==
    IF Len(node_changes(o, n)) = 0 THEN None
    ELSE Some([node_id |-> o.id, node_name |-> o.name, changes |-> node_changes(o, n)])

(* HashMap collected from (id, node) pairs: a later node of an id replaces an
   earlier one *)
NodesById(ns) ==
    [id \in {ns[i].id : i \in 1..Len(ns)} |-> ns[Max({i \in 1..Len(ns) : ns[i].id = id})]]

SetInOrder(order, S) == SelectSeq(order, LAMBDA k : k \in S)

(* nodes_added taking the difference the other way round *)
nodes_added_swapped(o, n) ==
    LET ids == SetInOrder(StrOrder, (DOMAIN NodesById(o.nodes)) \ (DOMAIN NodesById(n.nodes)))
    IN [i \in 1..Len(ids) |-> NodesById(o.nodes)[ids[i]]]

nodes_added(o, n) ==
    LET ids == SetInOrder(StrOrder, (DOMAIN NodesById(n.nodes)) \ (DOMAIN NodesById(o.nodes)))
    IN [i \in 1..Len(ids) |-> NodesById(n.nodes)[ids[i]]]

nodes_removed(o, n) ==
    LET ids == SetInOrder(StrOrder, (DOMAIN NodesById(o.nodes)) \ (DOMAIN NodesById(n.nodes)))
    IN [i \in 1..Len(ids) |-> NodesById(o.nodes)[ids[i]]]

nodes_modified(o, n) ==
    LET ids == SetInOrder(StrOrder, (DOMAIN NodesById(o.nodes)) \cap (DOMAIN NodesById(n.nodes)))
    IN Concat([i \in 1..Len(ids) |->
          compare_nodes(NodesById(o.nodes)[ids[i]], NodesById(n.nodes)[ids[i]])])

(* The key with the two port types in it *)
ConnKeyTyped(c) ==
    <<c.source_node, c.source_output, c.source_type, c.target_node, c.target_input,
      c.target_type>>

ConnKey(c) == <<c.source_node, c.source_output, c.target_node, c.target_input>>
ConnKeys(w) == {ConnKey(c) : c \in Range(connections_flat(w.connections))}

connections_added(o, n) ==
    SelectSeq(connections_flat(n.connections), LAMBDA c : ConnKey(c) \notin ConnKeys(o))

(* connections_removed listing a repeated edge once *)
connections_removed_once(o, n) ==
    LET all == connections_flat(o.connections)
        firsts == SelectSeq([i \in 1..Len(all) |-> i],
                            LAMBDA i : \A j \in 1..(i - 1) : all[j] # all[i])
    IN SelectSeq([i \in 1..Len(firsts) |-> all[firsts[i]]],
                 LAMBDA c : ConnKey(c) \notin ConnKeys(n))

connections_removed(o, n) ==
    SelectSeq(connections_flat(o.connections), LAMBDA c : ConnKey(c) \notin ConnKeys(n))

compare(o, n) ==
    [name_changed |-> IF o.name # n.name THEN Some(<<o.name, n.name>>) ELSE None,
     active_changed |-> IF o.active # n.active THEN Some(<<o.active, n.active>>) ELSE None,
     nodes_added |-> nodes_added(o, n),
     nodes_removed |-> nodes_removed(o, n),
     nodes_modified |-> nodes_modified(o, n),
     connections_added |-> connections_added(o, n),
     connections_removed |-> connections_removed(o, n)]

is_empty(d) ==
    /\ d.name_changed = None
    /\ d.active_changed = None
    /\ Len(d.nodes_added) = 0
    /\ Len(d.nodes_removed) = 0
    /\ Len(d.nodes_modified) = 0
    /\ Len(d.connections_added) = 0
    /\ Len(d.connections_removed) = 0

----------------------------------------------------------------------------
(* models/node.rs (is_trigger), models/workflow.rs (has_trigger),
   validation/workflow.rs *)

(* str::contains and str::trim on the strings of the model *)
Contains(s, pat) ==
    \E i \in 1..(Len(s) - Len(pat) + 1) : SubSeq(s, i, i + Len(pat) - 1) = pat
StartsWith(s, pat) == Len(s) >= Len(pat) /\ SubSeq(s, 1, Len(pat)) = pat

Whitespace == {" ", "\t", "\n"}
RECURSIVE trim_start(_)
trim_start(s) ==
    IF Len(s) > 0 /\ SubSeq(s, 1, 1) \in Whitespace
    THEN trim_start(SubSeq(s, 2, Len(s))) ELSE s
RECURSIVE trim_end(_)
trim_end(s) ==
    IF Len(s) > 0 /\ SubSeq(s, Len(s), Len(s)) \in Whitespace
    THEN trim_end(SubSeq(s, 1, Len(s) - 1)) ELSE s
trim(s) == trim_end(trim_start(s))

is_trigger(node) ==
    \/ Contains(node.node_type, "trigger")
    \/ Contains(node.node_type, "Trigger")
    \/ node.node_type = "n8n-nodes-base.start"
    \/ node.node_type = "n8n-nodes-base.manualTrigger"

has_trigger(ns) == \E i \in 1..Len(ns) : is_trigger(ns[i])

ValidationIssue(severity, message, node) ==
    [severity |-> severity, message |-> message, node |-> node]

(* The positions of a list that satisfy a test, in order *)
Positions(n, Test(_)) == SelectSeq([i \in 1..n |-> i], Test)

(* duplicate_ids testing the node against itself as well *)
duplicate_ids_every(ns) ==
    LET dup == Positions(Len(ns), LAMBDA i : \E j \in 1..i : ns[j].id = ns[i].id)
    IN [k \in 1..Len(dup) |->
          ValidationIssue("Error", "Duplicate node ID: " \o ns[dup[k]].id, Some(ns[dup[k]].name))]

duplicate_ids(ns) ==
    LET dup == Positions(Len(ns), LAMBDA i : \E j \in 1..(i - 1) : ns[j].id = ns[i].id)
    IN [k \in 1..Len(dup) |->
          ValidationIssue("Error", "Duplicate node ID: " \o ns[dup[k]].id, Some(ns[dup[k]].name))]

(* duplicate_names flagging every node whose name another node has *)
duplicate_names_every(ns) ==
    LET dup == Positions(Len(ns),
                   LAMBDA i : \E j \in (1..Len(ns)) \ {i} : ns[j].name = ns[i].name)
    IN [k \in 1..Len(dup) |->
          ValidationIssue("Error", "Duplicate node name: " \o ns[dup[k]].name,
                          Some(ns[dup[k]].name))]

duplicate_names(ns) ==
    LET dup == Positions(Len(ns), LAMBDA i : \E j \in 1..(i - 1) : ns[j].name = ns[i].name)
    IN [k \in 1..Len(dup) |->
          ValidationIssue("Error", "Duplicate node name: " \o ns[dup[k]].name,
                          Some(ns[dup[k]].name))]

no_trigger(ns) ==
    IF has_trigger(ns) THEN <<>>
    ELSE <<ValidationIssue("Warning",
                           "No trigger node found. Workflow can only be executed manually.",
                           None)>>

(* dangling_references looking at the target only when the source exists *)
dangling_references_first_side(ns, conns) ==
    LET valid_nodes == {ns[i].name : i \in 1..Len(ns)}
    IN Concat([c \in 1..Len(conns) |->
          IF conns[c].source_node \notin valid_nodes
          THEN <<ValidationIssue("Error",
                     "Connection references non-existent source node: " \o conns[c].source_node,
                     Some(conns[c].source_node))>>
          ELSE IF conns[c].target_node \notin valid_nodes
          THEN <<ValidationIssue("Error",
                     "Connection references non-existent target node: " \o conns[c].target_node,
                     Some(conns[c].target_node))>>
          ELSE <<>>])

dangling_references(ns, conns) ==
    LET valid_nodes == {ns[i].name : i \in 1..Len(ns)}
    IN Concat([c \in 1..Len(conns) |->
          (IF conns[c].source_node \in valid_nodes THEN <<>>
           ELSE <<ValidationIssue("Error",
                     "Connection references non-existent source node: " \o conns[c].source_node,
                     Some(conns[c].source_node))>>)
          \o
          (IF conns[c].target_node \in valid_nodes THEN <<>>
           ELSE <<ValidationIssue("Error",
                     "Connection references non-existent target node: " \o conns[c].target_node,
                     Some(conns[c].target_node))>>)])

orphan_nodes(ns, conns) ==
    LET connected_nodes == {conns[c].source_node : c \in 1..Len(conns)}
                           \cup {conns[c].target_node : c \in 1..Len(conns)}
        orphan == Positions(Len(ns),
                      LAMBDA i : ~is_trigger(ns[i]) /\ ns[i].name \notin connected_nodes)
    IN [k \in 1..Len(orphan) |->
          ValidationIssue("Warning",
              "Node '" \o ns[orphan[k]].name \o "' is not connected to any other node",
              Some(ns[orphan[k]].name))]

self_loops(conns) ==
    LET loops == Positions(Len(conns), LAMBDA c : conns[c].source_node = conns[c].target_node)
    IN [k \in 1..Len(loops) |->
          ValidationIssue("Warning",
              "Node '" \o conns[loops[k]].source_node \o "' has a self-loop connection",
              Some(conns[loops[k]].source_node))]

empty_node_names(ns) ==
    LET empty == Positions(Len(ns), LAMBDA i : trim(ns[i].name) = "")
    IN [k \in 1..Len(empty) |->
          ValidationIssue("Error", "Node has empty name", Some(ns[empty[k]].id))]

(* empty_workflow_name without the trim *)
empty_workflow_name_untrimmed(name) ==
    IF name = "" THEN <<ValidationIssue("Error", "Workflow has empty name", None)>>
    ELSE <<>>

empty_workflow_name(name) ==
    IF trim(name) = "" THEN <<ValidationIssue("Error", "Workflow has empty name", None)>>
    ELSE <<>>

(* validate_workflow going on to the other rules on an empty node list *)
validate_workflow_in_no_return(workflow, order) ==
    LET conns == from_connections_map_in(workflow.connections, order)
    IN (IF Len(workflow.nodes) = 0
        THEN <<ValidationIssue("Warning", "Workflow has no nodes", None)>> ELSE <<>>)
       \o duplicate_ids(workflow.nodes)
       \o duplicate_names(workflow.nodes)
       \o no_trigger(workflow.nodes)
       \o dangling_references(workflow.nodes, conns)
       \o orphan_nodes(workflow.nodes, conns)
       \o self_loops(conns)
       \o empty_node_names(workflow.nodes)
       \o empty_workflow_name(workflow.name)

(* validate_workflow, with the order in which connections_flat hands out the
   keys of the map *)
validate_workflow_in(workflow, order) ==
    IF Len(workflow.nodes) = 0
    THEN <<ValidationIssue("Warning", "Workflow has no nodes", None)>>
    ELSE LET conns == from_connections_map_in(workflow.connections, order)
         IN duplicate_ids(workflow.nodes)
            \o duplicate_names(workflow.nodes)
            \o no_trigger(workflow.nodes)
            \o dangling_references(workflow.nodes, conns)
            \o orphan_nodes(workflow.nodes, conns)
            \o self_loops(conns)
            \o empty_node_names(workflow.nodes)
            \o empty_workflow_name(workflow.name)

(* is_valid asking for no issue at all *)
is_valid_no_issue(issues) == Len(issues) = 0

is_valid(issues) == ~\E i \in 1..Len(issues) : issues[i].severity = "Error"
errors(issues) == SelectSeq(issues, LAMBDA i : i.severity = "Error")
warnings(issues) == SelectSeq(issues, LAMBDA i : i.severity = "Warning")

----------------------------------------------------------------------------
(* main.rs: the node update command, from fetch to upload *)

(* A part of a wire document (serde_json::Value): one that has the typed
   shape asked of it, null, or one with a field of a wrong type *)
Typed(value) == [kind |-> "typed", value |-> value]
Null == [kind |-> "null"]
Mistyped == [kind |-> "mistyped"]

(* serde_json::from_value into the typed shape *)
from_value(v) == IF v.kind = "typed" THEN Some(v.value) ELSE None

WorkflowSettings(timezone, execution_order) ==
    [timezone |-> timezone, execution_order |-> execution_order]
DefaultSettings == WorkflowSettings(None, None)

WorkflowDetail(name, active, ns, conns, settings) ==
    [name |-> name, active |-> active, nodes |-> ns, connections |-> conns,
     settings |-> settings]

(* GET /workflows/{id} of a workflow the platform stores *)
get_workflow(stored) ==
    WorkflowDetail(stored.name, stored.active, Typed(stored.nodes),
                   Typed(stored.connections), Null)

from_detail(detail) ==
    IF from_value(detail.nodes) = None THEN [result |-> "InvalidInput"]
    ELSE IF from_value(detail.connections) = None THEN [result |-> "InvalidInput"]
    ELSE [result |-> "Ok",
          workflow |-> Workflow(detail.name, detail.active,
                                Unwrap(from_value(detail.nodes)),
                                Unwrap(from_value(detail.connections))),
          settings |-> UnwrapOr(from_value(detail.settings), DefaultSettings)]

to_definition(w) == [name |-> w.name, nodes |-> w.nodes, connections |-> w.connections]

(* What the platform stores after PUT /workflows/{id} *)
update_workflow(stored, definition) ==
    [stored EXCEPT !.name = definition.name, !.nodes = definition.nodes,
                   !.connections = definition.connections]

(* serde_json::from_str of the --config text *)
from_str(cfg) == IF cfg.valid THEN Some(cfg.value) ELSE None

merge_parameters(existing, incoming) ==
    [k \in (DOMAIN existing) \cup (DOMAIN incoming) |->
        IF k \in DOMAIN incoming THEN incoming[k] ELSE existing[k]]

Outcome(result, uploaded, old_name) ==
    [result |-> result, uploaded |-> uploaded, old_name |-> old_name]

(* nodes_update encoding the definition before the cascade *)
nodes_update_encode_first(detail, node_id, name, position, node_config, replace, disabled) ==
    LET decoded == from_detail(detail)
        workflow == decoded.workflow
    IN IF decoded.result # "Ok" THEN Outcome("InvalidInput", None, "")
       ELSE IF find_node(workflow.nodes, node_id) = None
       THEN Outcome("NodeNotFound", None, "")
       ELSE LET pos == Min(Matches(workflow.nodes, node_id))
                node == workflow.nodes[pos]
                named == IF IsSome(name) THEN [node EXCEPT !.name = Unwrap(name)] ELSE node
                definition ==
                    to_definition([workflow EXCEPT !.nodes = [@ EXCEPT ![pos] = named]])
            IN IF IsSome(node_config) /\ from_str(Unwrap(node_config)) = None
               THEN Outcome("InvalidInput", None, node.name)
               ELSE Outcome("Ok", Some(definition), node.name)

nodes_update(detail, node_id, name, position, node_config, replace, disabled) ==
    LET decoded == from_detail(detail)
        workflow == decoded.workflow
    IN IF decoded.result # "Ok" THEN Outcome("InvalidInput", None, "")
       ELSE IF find_node(workflow.nodes, node_id) = None
       THEN Outcome("NodeNotFound", None, "")
       ELSE LET pos == Min(Matches(workflow.nodes, node_id))
                node == workflow.nodes[pos]
                old_name == node.name
                named == IF IsSome(name) THEN [node EXCEPT !.name = Unwrap(name)] ELSE node
                placed == IF IsSome(position)
                          THEN [named EXCEPT !.position =
                                   Position(Unwrap(position)[1], Unwrap(position)[2])]
                          ELSE named
            IN IF IsSome(node_config) /\ from_str(Unwrap(node_config)) = None
               THEN Outcome("InvalidInput", None, old_name)
               ELSE LET configured ==
                            IF IsSome(node_config)
                            THEN [placed EXCEPT !.parameters =
                                     IF replace THEN Unwrap(from_str(Unwrap(node_config)))
                                     ELSE merge_parameters(@, Unwrap(from_str(Unwrap(node_config))))]
                            ELSE placed
                        updated == IF IsSome(disabled)
                                   THEN [configured EXCEPT !.disabled = Unwrap(disabled)]
                                   ELSE configured
                        conns == IF IsSome(name) /\ old_name # Unwrap(name)
                                 THEN rename_node_in_connections(workflow.connections,
                                                                 old_name, Unwrap(name))
                                 ELSE workflow.connections
                        definition ==
                            to_definition([workflow EXCEPT !.nodes = [@ EXCEPT ![pos] = updated],
                                                           !.connections = conns])
                    IN Outcome("Ok", Some(definition), old_name)

----------------------------------------------------------------------------
(* Input sets *)

PortTypes == {"main", "ai_tool"}
(* The lowest and the highest port: an edge on the highest leaves the ports
   below it as padding *)
Ports == {0, MaxPort}

(* Endpoint shapes of a target: its input port and its port type *)
TargetShapes == {<<0, "main">>, <<1, "ai_tool">>}

EdgesOver(S) ==
    {new_full(s, so, st, t, sh[1], sh[2]) :
        s \in S, so \in Ports, st \in PortTypes, t \in S, sh \in TargetShapes}

SeqsUpTo(S, n) == UNION {[1..k -> S] : k \in 0..n}

(* Two of the orders in which a HashMap may hand out its keys *)
Reverse(s) == [i \in 1..Len(s) |-> s[Len(s) + 1 - i]]
KeyOrders == {StrOrder, Reverse(StrOrder)}

Idle == "idle"

ApiIdle == nodes = <<>> /\ connections = EmptyMap /\ last = Idle
RtIdle == edges = <<>> /\ cmap = None /\ flat = None
DiffIdle == old = Idle /\ new = Idle /\ diff = None
CliIdle == remote = Idle /\ cmd = Idle

----------------------------------------------------------------------------
(* Round trip of the two edge representations: a flat list is folded into
   a ConnectionsMap and read back. *)

InitRoundTrip ==
    /\ edges \in SeqsUpTo(EdgesOver({"A", "B"}), MaxEdges)
    /\ cmap = None
    /\ flat = None
    /\ ApiIdle /\ DiffIdle /\ CliIdle

Build ==
    /\ cmap = None
    /\ cmap' = Some(to_connections_map(edges))
    /\ UNCHANGED <<edges, flat>>
    /\ UNCHANGED <<apiVars, diffVars, cliVars>>

Flatten ==
    /\ IsSome(cmap)
    /\ flat = None
    /\ \E order \in KeyOrders :
          flat' = Some(from_connections_map_in(Unwrap(cmap), order))
    /\ UNCHANGED <<edges, cmap>>
    /\ UNCHANGED <<apiVars, diffVars, cliVars>>

NextRoundTrip == Build \/ Flatten

SpecRoundTrip == InitRoundTrip /\ [][NextRoundTrip]_vars

(* C2: reading back the map built from a flat edge list gives the same edges
   with the same multiplicity: every edge returns with its source name, port
   and type and its target name, port and type, and none is added. *)
RoundTripIsMultisetEqual ==
    IsSome(flat) => SeqToBag(Unwrap(flat)) = SeqToBag(edges)

(* A round trip of a repeated edge on port 1 (port 0 is padding) *)
RoundTripWitness ==
    /\ IsSome(flat)
    /\ Len(edges) = 2
    /\ edges[1] = edges[2]
    /\ edges[1].source_output = 1

----------------------------------------------------------------------------
(* The mutation API of TypedWorkflow, called in any order on a decoded graph *)

ApiStrs == {"A", "B", "n1"}
(* Node n1 named A, and a node named B whose id is the other's name *)
ApiNodes == {NodeNew("n1", "A", "n8n-nodes-base.set"), NodeNew("A", "B", "n8n-nodes-base.set")}
(* The same, and a second node named A *)
SharedNameNodes == ApiNodes \cup {NodeNew("n2", "A", "n8n-nodes-base.set")}

(* Edges handed to add_connection, between A and B: "main" edges from port 0
   and "ai_tool" edges from the highest port (the ports below it are
   padding); the target's input port and type go with the source type *)
ShapeOf(st) == IF st = "main" THEN <<0, "main">> ELSE <<1, "ai_tool">>
ApiSources == {<<0, "main">>, <<MaxPort, "ai_tool">>}
ApiEdges ==
    {new_full(s, src[1], src[2], t, ShapeOf(src[2])[1], ShapeOf(src[2])[2]) :
        s \in {"A", "B"}, src \in ApiSources, t \in {"A", "B"}}

EdgeCount(conns) == Len(connections_flat(conns))

(* The record of a call: its arguments, its result and the graph it was made on *)
Call(op, a, b, conn, found, removed) ==
    [op |-> op, a |-> a, b |-> b, conn |-> conn, found |-> found, removed |-> removed,
     nodes |-> nodes, connections |-> connections]

(* No call pending: the caller has read the last result *)
NoCall ==
    [op |-> "idle", a |-> "", b |-> "", conn |-> None, found |-> None, removed |-> FALSE,
     nodes |-> <<>>, connections |-> EmptyMap]

(* A caller that looks at the result keeps the record of the call until it
   has read it; one that only goes on to the next mutation keeps none *)
Kept(record, call) == IF record THEN call ELSE NoCall

Init ==
    /\ nodes \in SeqsUpTo(SharedNameNodes, MaxNodes)
    /\ connections \in {to_connections_map(es) : es \in SeqsUpTo(ApiEdges, 1)}
    /\ last = NoCall
    /\ RtIdle /\ DiffIdle /\ CliIdle

DoFindNode(x) ==
    /\ last = NoCall
    /\ last' = Call("find_node", x, "", None, find_node(nodes, x), FALSE)
    /\ UNCHANGED <<nodes, connections>>

DoAddNode(node, record) ==
    /\ last = NoCall
    /\ Len(nodes) < MaxNodes
    /\ nodes' = add_node(nodes, node)
    /\ last' = Kept(record, Call("add_node", node.id, node.name, None, None, FALSE))
    /\ UNCHANGED connections

DoRemoveNode(x, record) ==
    LET r == remove_node(nodes, connections, x)
    IN /\ last = NoCall
       /\ nodes' = r.nodes
       /\ connections' = r.connections
       /\ last' = Kept(record, Call("remove_node", x, "", None, r.result, FALSE))

DoAddConnection(conn, record) ==
    /\ last = NoCall
    /\ EdgeCount(connections) < MaxEdges
    /\ connections' = add_connection(connections, conn)
    /\ last' = Kept(record, Call("add_connection", conn.source_node, conn.target_node,
                                 Some(conn), None, FALSE))
    /\ UNCHANGED nodes

DoRemoveConnection(from_node, to_node, record) ==
    LET r == remove_connection(nodes, connections, from_node, to_node)
    IN /\ last = NoCall
       /\ connections' = r.map
       /\ last' = Kept(record, Call("remove_connection", from_node, to_node, None, None,
                                    r.removed))
       /\ UNCHANGED nodes

DoRenameNodeInConnections(old_name, new_name) ==
    /\ last = NoCall
    /\ connections' = rename_node_in_connections(connections, old_name, new_name)
    /\ last' = Call("rename_node_in_connections", old_name, new_name, None, None, FALSE)
    /\ UNCHANGED nodes

FindNode == (\E x \in ApiStrs : DoFindNode(x)) /\ UNCHANGED <<rtVars, diffVars, cliVars>>
AddNode == (\E node \in SharedNameNodes : DoAddNode(node, TRUE)) /\ UNCHANGED <<rtVars, diffVars, cliVars>>
RemoveNode == (\E x \in ApiStrs : DoRemoveNode(x, TRUE)) /\ UNCHANGED <<rtVars, diffVars, cliVars>>
AddConnection ==
    (\E conn \in ApiEdges : DoAddConnection(conn, TRUE))
    /\ UNCHANGED <<rtVars, diffVars, cliVars>>
RemoveConnection ==
    (\E f \in ApiStrs, t \in ApiStrs : DoRemoveConnection(f, t, TRUE))
    /\ UNCHANGED <<rtVars, diffVars, cliVars>>
RenameNodeInConnections ==
    (\E o \in {"A", "B"}, n \in {"A", "B"} : DoRenameNodeInConnections(o, n))
    /\ UNCHANGED <<rtVars, diffVars, cliVars>>

(* The caller reads the result and goes on *)
Return ==
    /\ last # NoCall
    /\ last' = NoCall
    /\ UNCHANGED <<nodes, connections, rtVars, diffVars, cliVars>>

Next ==
    \/ Return
    \/ FindNode
    \/ AddNode
    \/ RemoveNode
    \/ AddConnection
    \/ RemoveConnection
    \/ RenameNodeInConnections

Spec == Init /\ [][Next]_vars

----------------------------------------------------------------------------
(* Properties of the mutation API *)

References(e, name) == e.source_node = name \/ e.target_node = name
EdgesOf(conns) == Range(connections_flat(conns))
SelectEdges(conns, name) ==
    SelectSeq(connections_flat(conns), LAMBDA e : References(e, name))

HasId(ns, x) == \E i \in 1..Len(ns) : ns[i].id = x
HasName(ns, x) == \E i \in 1..Len(ns) : ns[i].name = x

(* C3 as stated: after removeNode(A), A the name of a node of the graph, no
   edge has source or target A. *)
RemoveNodeClearsArgumentName ==
    (last.op = "remove_node" /\ HasName(last.nodes, last.a))
        => \A e \in EdgesOf(connections) : ~References(e, last.a)

(* C3, amended: after removeNode(x) has removed a node, no edge has the name
   of the removed node as its source or as its target. *)
RemoveNodeClearsRemovedName ==
    (last.op = "remove_node" /\ IsSome(last.found))
        => \A e \in EdgesOf(connections) : ~References(e, Unwrap(last.found).name)

(* A node was removed that had an edge out of it and an edge into it from
   another source *)
RemoveNodeWitness ==
    /\ last.op = "remove_node"
    /\ IsSome(last.found)
    /\ \E e \in EdgesOf(last.connections) : e.source_node = Unwrap(last.found).name
    /\ \E e \in EdgesOf(last.connections) :
          /\ e.target_node = Unwrap(last.found).name
          /\ e.source_node # Unwrap(last.found).name

(* C4 (for A # B): after renameNodeInConnections(A, B) every edge that
   referenced A as source or target is there with B in that position and its
   other fields unchanged, and no edge references A. *)
Renamed(e, a, b) ==
    [e EXCEPT !.source_node = IF @ = a THEN b ELSE @,
              !.target_node = IF @ = a THEN b ELSE @]
RenameRewritesEveryReference ==
    (last.op = "rename_node_in_connections" /\ last.a # last.b)
        => LET before == SelectEdges(last.connections, last.a)
               moved == [i \in 1..Len(before) |-> Renamed(before[i], last.a, last.b)]
           IN /\ SeqToBag(moved) \sqsubseteq SeqToBag(connections_flat(connections))
              /\ \A e \in EdgesOf(connections) : ~References(e, last.a)

(* C8: findNode(x) returns a node of id x whenever one exists, a node of name
   x only when no node has id x, and nothing iff no node has id or name x. *)
FindNodeResolvesIdFirst ==
    last.op = "find_node"
        => /\ HasId(last.nodes, last.a)
                => (IsSome(last.found) /\ Unwrap(last.found).id = last.a)
           /\ (~HasId(last.nodes, last.a) /\ HasName(last.nodes, last.a))
                => (IsSome(last.found) /\ Unwrap(last.found).name = last.a)
           /\ (last.found = None)
                <=> (~HasId(last.nodes, last.a) /\ ~HasName(last.nodes, last.a))

(* C9: addConnection and removeConnection resolve their id-or-name arguments
   to node names before touching the adjacency index, falling back to the raw
   argument: an edge added under a node id is stored under that node's name,
   and removeConnection with node ids removes the edges between the names. *)
ConnectionCallsResolveNames ==
    /\ last.op = "add_connection"
         => connections =
              add_to_map(last.connections,
                  [Unwrap(last.conn) EXCEPT
                      !.source_node = UnwrapOr(get_node_name(last.nodes, @), @),
                      !.target_node = UnwrapOr(get_node_name(last.nodes, @), @)])
    /\ last.op = "remove_connection"
         => connections =
              remove_from_map(last.connections,
                  UnwrapOr(get_node_name(last.nodes, last.a), last.a),
                  UnwrapOr(get_node_name(last.nodes, last.b), last.b)).map

(* C10: a lookup miss is returned as a value and changes nothing: removeNode
   of an unknown id-or-name returns nothing, removeConnection with no edge from
   the resolved source to the resolved target returns false, and in both cases
   nodes and connections are as before the call. *)
ResolvedName(ns, x) == UnwrapOr(get_node_name(ns, x), x)
HasEdge(conns, from_name, to_name) ==
    \E e \in EdgesOf(conns) : e.source_node = from_name /\ e.target_node = to_name
LookupMissChangesNothing ==
    /\ (last.op = "remove_node" /\ ~HasId(last.nodes, last.a) /\ ~HasName(last.nodes, last.a))
         => (last.found = None /\ nodes = last.nodes /\ connections = last.connections)
    /\ (last.op = "remove_connection"
        /\ ~HasEdge(last.connections, ResolvedName(last.nodes, last.a),
                    ResolvedName(last.nodes, last.b)))
         => (~last.removed /\ nodes = last.nodes /\ connections = last.connections)

(* removeConnection missed on a graph that has edges, none of them out of the
   resolved source *)
LookupMissWitness ==
    /\ last.op = "remove_connection"
    /\ ~last.removed
    /\ EdgeCount(last.connections) > 0
    /\ ResolvedName(last.nodes, last.a) \notin DOMAIN last.connections
    /\ connections = last.connections

----------------------------------------------------------------------------
(* Referential integrity under the mutation API: a graph with unique node
   names whose edges all reference nodes, mutated by adding a node of a new
   name, removing a node, connecting existing nodes, disconnecting, and
   renaming a node to an unused name with the cascade through the edges. *)

IntegrityNames == {"A", "B", "New"}
IntegrityNodes == ApiNodes
(* Every main edge between the names, and the ai_tool edge from A to B *)
IntegrityEdges(names) ==
    {e \in {new_full(s, src[1], src[2], t, ShapeOf(src[2])[1], ShapeOf(src[2])[2]) :
                s \in names, src \in ApiSources, t \in names} :
        e.source_type = "main" \/ (e.source_node = "A" /\ e.target_node = "B")}

UniqueNames(ns) == \A i, j \in 1..Len(ns) : ns[i].name = ns[j].name => i = j

InitIntegrity ==
    /\ nodes \in {ns \in SeqsUpTo(IntegrityNodes, MaxNodes) : UniqueNames(ns)}
    /\ connections \in
          {to_connections_map(es) : es \in SeqsUpTo(IntegrityEdges(node_names(nodes)), 1)}
    /\ last = NoCall
    /\ RtIdle /\ DiffIdle /\ CliIdle

DoRenameNode(x, new_name) ==
    /\ last = NoCall
    /\ IsSome(find_node(nodes, x))
    /\ LET old_name == Unwrap(find_node(nodes, x)).name
       IN /\ nodes' = set_node_name(nodes, x, new_name)
          /\ connections' = rename_node_in_connections(connections, old_name, new_name)
          /\ last' = NoCall

AddFreshNode ==
    /\ \E node \in IntegrityNodes : node.name \notin node_names(nodes) /\ DoAddNode(node, FALSE)
    /\ UNCHANGED <<rtVars, diffVars, cliVars>>
RemoveAnyNode ==
    /\ \E x \in IntegrityNames \cup {"n1"} : DoRemoveNode(x, FALSE)
    /\ UNCHANGED <<rtVars, diffVars, cliVars>>
ConnectExisting ==
    /\ \E conn \in IntegrityEdges(node_names(nodes)) : DoAddConnection(conn, FALSE)
    /\ UNCHANGED <<rtVars, diffVars, cliVars>>
Disconnect ==
    /\ \E f \in IntegrityNames \cup {"n1"}, t \in IntegrityNames \cup {"n1"} :
          DoRemoveConnection(f, t, FALSE)
    /\ UNCHANGED <<rtVars, diffVars, cliVars>>
RenameToUnused ==
    /\ \E x \in IntegrityNames \cup {"n1"}, new_name \in IntegrityNames :
          new_name \notin node_names(nodes) /\ DoRenameNode(x, new_name)
    /\ UNCHANGED <<rtVars, diffVars, cliVars>>

NextIntegrity ==
    \/ AddFreshNode
    \/ RemoveAnyNode
    \/ ConnectExisting
    \/ Disconnect
    \/ RenameToUnused

SpecIntegrity == InitIntegrity /\ [][NextIntegrity]_vars

(* C1: every edge of the flattened adjacency index has its source name and
   its target name in the node list, after any sequence of these mutations. *)
ReferentialIntegrity ==
    \A e \in EdgesOf(connections) :
        e.source_node \in node_names(nodes) /\ e.target_node \in node_names(nodes)

(* A node was renamed to New, a name no node is added under, and its edge
   to another node and its edge from another node reference it as New *)
ReferentialIntegrityWitness ==
    /\ HasName(nodes, "New")
    /\ \E e \in EdgesOf(connections) : e.source_node = "New" /\ e.target_node # "New"
    /\ \E e \in EdgesOf(connections) : e.target_node = "New" /\ e.source_node # "New"

----------------------------------------------------------------------------
(* The differ on pairs of decoded workflows *)

DiffNode(id, variant) ==
    LET base == NodeNew(id, "A", "n8n-nodes-base.set")
    IN CASE variant = "base" -> base
         [] variant = "renamed" -> [base EXCEPT !.name = "B"]
         [] variant = "moved" -> [base EXCEPT !.position = Position(100, 0)]
         [] variant = "reparam" -> [base EXCEPT !.parameters = [url |-> "a"]]
         [] variant = "retyped" -> [base EXCEPT !.node_type = "n8n-nodes-base.code"]
         [] variant = "disabled" -> [base EXCEPT !.disabled = TRUE, !.position = Position(0, 50)]

DiffNodes ==
    {DiffNode(id, v) : id \in {"n1", "n2"}, v \in {"base", "renamed", "moved", "reparam"}}
    \cup {DiffNode("n1", "retyped"), DiffNode("n1", "disabled")}

(* Edges between A and B: one, the same with other port types, one from
   port 1, one into input 1, and the reverse *)
DiffEdges ==
    {new_full("A", 0, "main", "B", 0, "main"),
     new_full("A", 0, "ai_tool", "B", 0, "ai_tool"),
     new_full("A", MaxPort, "main", "B", 0, "main"),
     new_full("A", 0, "main", "B", 1, "main"),
     new_full("B", 0, "main", "A", 0, "main")}

DiffNodeLists == SeqsUpTo(DiffNodes, MaxNodes)
OldNodeLists ==
    SeqsUpTo({DiffNode("n1", "base"), DiffNode("n1", "renamed"), DiffNode("n2", "base")},
             MaxNodes)
DiffMaps == {to_connections_map(es) : es \in SeqsUpTo(DiffEdges, MaxEdges)}

(* No edge, one edge twice, and one edge of the other port type *)
SameMaps ==
    {to_connections_map(es) :
        es \in {<<>>,
                <<new_full("B", 0, "main", "A", 0, "main"), new_full("B", 0, "main", "A", 0, "main")>>,
                <<new_full("A", 0, "ai_tool", "B", 0, "ai_tool")>>}}

(* Pairs that differ in their nodes, pairs that differ in name, active flag
   and edges, and graphs paired with themselves *)
NodePairs ==
    {<<Workflow("W", FALSE, n1, EmptyMap), Workflow("W", FALSE, n2, EmptyMap)>> :
        n1 \in OldNodeLists, n2 \in DiffNodeLists}
EdgePairs ==
    {<<Workflow("W", FALSE, <<DiffNode("n1", "base")>>, c1),
       Workflow("W", FALSE, <<DiffNode("n1", "base")>>, c2)>> :
        c1 \in DiffMaps, c2 \in DiffMaps}
    \cup
    {<<Workflow("W", FALSE, <<DiffNode("n1", "base")>>, c),
       Workflow(name, active, <<DiffNode("n1", "base")>>, c)>> :
        c \in SameMaps, name \in {"W", "W2"}, active \in BOOLEAN}
SamePairs ==
    {<<Workflow("W", TRUE, ns, c), Workflow("W", TRUE, ns, c)>> :
        ns \in DiffNodeLists, c \in SameMaps}
    \cup
    {<<Workflow("W", TRUE, ns, c), Workflow("W", TRUE, ns, c)>> :
        ns \in {<<DiffNode("n1", "reparam"), DiffNode("n2", "moved")>>}, c \in DiffMaps}

InitDiff ==
    /\ \E pair \in NodePairs \cup EdgePairs \cup SamePairs :
          old = pair[1] /\ new = pair[2]
    /\ diff = None
    /\ ApiIdle /\ RtIdle /\ CliIdle

Compare ==
    /\ diff = None
    /\ diff' = Some(compare(old, new))
    /\ UNCHANGED <<old, new, apiVars, rtVars, cliVars>>

NextDiff == Compare

SpecDiff == InitDiff /\ [][NextDiff]_vars

(* C6: the diff of a graph with itself is empty, also with duplicate node
   ids, duplicate node names, duplicate edges or dangling edge references. *)
DiffIsReflexive ==
    (IsSome(diff) /\ old = new) => is_empty(Unwrap(diff))

(* A graph with two nodes of one id and one name and a repeated edge out of a
   name that is no node was compared with itself *)
DiffIsReflexiveWitness ==
    /\ IsSome(diff)
    /\ old = new
    /\ Len(old.nodes) = 2
    /\ old.nodes[1].id = old.nodes[2].id
    /\ old.nodes[1].name = old.nodes[2].name
    /\ old.nodes[1] # old.nodes[2]
    /\ \E e \in EdgesOf(old.connections) :
          /\ e.source_node \notin node_names(old.nodes)
          /\ SeqToBag(connections_flat(old.connections))[e] = 2

IdsOf(ns) == {ns[i].id : i \in 1..Len(ns)}
ModifiedIds(d) == {d.nodes_modified[i].node_id : i \in 1..Len(d.nodes_modified)}

(* C7 as stated: added and removed ids are disjoint from the modified ids,
   added are the ids only in the new graph, removed the ids only in the old
   one, and the three together are the symmetric difference plus the
   intersection of the two id sets. *)
DiffCoversAllIds ==
    IsSome(diff) =>
        LET d == Unwrap(diff)
            o == IdsOf(old.nodes)
            n == IdsOf(new.nodes)
        IN /\ (IdsOf(d.nodes_added) \cup IdsOf(d.nodes_removed)) \cap ModifiedIds(d) = {}
           /\ IdsOf(d.nodes_added) = n \ o
           /\ IdsOf(d.nodes_removed) = o \ n
           /\ IdsOf(d.nodes_added) \cup IdsOf(d.nodes_removed) \cup ModifiedIds(d)
                = ((o \ n) \cup (n \ o)) \cup (o \cap n)

(* The node an id stands for: the last one of that id in the list *)
LastOfId(ns, id) == ns[Max({i \in 1..Len(ns) : ns[i].id = id})]
NodesDiffer(a, b) ==
    \/ a.name # b.name
    \/ a.node_type # b.node_type
    \/ a.position # b.position
    \/ a.disabled # b.disabled
    \/ a.parameters # b.parameters

(* C7, amended: as stated, except that of the intersection only the ids whose
   two nodes differ in name, type, position, disabled or parameters are
   covered (by nodesModified); an unchanged node is in none of the lists. *)
DiffCoversChangedIds ==
    IsSome(diff) =>
        LET d == Unwrap(diff)
            o == IdsOf(old.nodes)
            n == IdsOf(new.nodes)
        IN /\ (IdsOf(d.nodes_added) \cup IdsOf(d.nodes_removed)) \cap ModifiedIds(d) = {}
           /\ IdsOf(d.nodes_added) = n \ o
           /\ IdsOf(d.nodes_removed) = o \ n
           /\ IdsOf(d.nodes_added) \cup IdsOf(d.nodes_removed) \cup ModifiedIds(d)
                = ((o \ n) \cup (n \ o))
                  \cup {id \in o \cap n :
                          NodesDiffer(LastOfId(old.nodes, id), LastOfId(new.nodes, id))}

(* A diff with a removed node and an unchanged node of the intersection,
   which is in none of the lists *)
DiffCoversWitness ==
    /\ IsSome(diff)
    /\ Len(Unwrap(diff).nodes_removed) = 1
    /\ Len(Unwrap(diff).nodes_modified) = 0
    /\ IdsOf(old.nodes) \cap IdsOf(new.nodes) # {}

----------------------------------------------------------------------------
(* The node update command run against the workflow stored on the platform *)

CliStrs == {"n1", "Old", "New", "B"}
CliNode(id, name) == NodeNew(id, name, "n8n-nodes-base.set")
CliEdges ==
    {new_full("Old", 0, "main", "B", 0, "main"),
     new_full("B", 0, "main", "Old", 0, "main"),
     new_full("Old", MaxPort, "main", "Old", 0, "main")}

(* What the command line gives besides the node and the new name: nothing, a
   position, a configuration to merge or to replace with, a configuration
   that is no JSON, or the disabled flag *)
Options(position, node_config, replace, disabled) ==
    [position |-> position, node_config |-> node_config, replace |-> replace,
     disabled |-> disabled]
UpdateOptions ==
    {Options(None, None, FALSE, None),
     Options(Some(<<100, 0>>), None, FALSE, None),
     Options(None, Some([valid |-> TRUE, value |-> [url |-> "b"]]), FALSE, None),
     Options(None, Some([valid |-> TRUE, value |-> [url |-> "b"]]), TRUE, None),
     Options(None, Some([valid |-> FALSE, value |-> EmptyObject]), FALSE, None),
     Options(None, None, FALSE, Some(TRUE))}

NoCmd ==
    [kind |-> "none", node_id |-> "", name |-> None, result |-> "", uploaded |-> None,
     old_name |-> "", before |-> Workflow("", FALSE, <<>>, EmptyMap)]

InitCli ==
    /\ remote \in {Workflow("W", FALSE, <<CliNode("n1", "Old"), CliNode("n2", "B")>>,
                            to_connections_map(es)) : es \in SeqsUpTo(CliEdges, MaxEdges)}
    /\ cmd = NoCmd
    /\ ApiIdle /\ RtIdle /\ DiffIdle

NodesUpdate ==
    /\ cmd = NoCmd
    /\ \E node_id \in CliStrs, name \in {None} \cup {Some(n) : n \in {"Old", "New", "B"}},
          opt \in UpdateOptions :
          LET out == nodes_update(get_workflow(remote), node_id, name, opt.position,
                                  opt.node_config,
                                  opt.replace, opt.disabled)
          IN /\ remote' = IF IsSome(out.uploaded)
                          THEN update_workflow(remote, Unwrap(out.uploaded))
                          ELSE remote
             /\ cmd' = [kind |-> "nodes_update", node_id |-> node_id, name |-> name,
                        result |-> out.result, uploaded |-> out.uploaded,
                        old_name |-> out.old_name, before |-> remote]
    /\ UNCHANGED <<apiVars, rtVars, diffVars>>

(* The command has ended; the next one starts from the stored workflow *)
Exit ==
    /\ cmd # NoCmd
    /\ cmd' = NoCmd
    /\ UNCHANGED <<remote, apiVars, rtVars, diffVars>>

NextCli == NodesUpdate \/ Exit

SpecCli == InitCli /\ [][NextCli]_vars

(* C5: when the update command is given a new name different from the node's
   old name, the uploaded definition carries the node under its new name and
   the connections after the cascade: they are the fetched connections
   renamed from old to new, and no edge references the old name. Renaming
   n1 from Old to New with the single edge Old -> B uploads exactly the
   edge New -> B. *)
UpdateCascadesBeforeUpload ==
    (cmd.kind = "nodes_update" /\ IsSome(cmd.name) /\ IsSome(cmd.uploaded)
     /\ Unwrap(cmd.name) # cmd.old_name)
        => LET definition == Unwrap(cmd.uploaded)
               new_name == Unwrap(cmd.name)
           IN /\ definition.connections =
                    rename_node_in_connections(cmd.before.connections, cmd.old_name, new_name)
              /\ \A e \in EdgesOf(definition.connections) : ~References(e, cmd.old_name)
              /\ new_name \in node_names(definition.nodes)
              /\ remote.connections = definition.connections
              /\ (/\ cmd.node_id = "n1"
                  /\ cmd.old_name = "Old"
                  /\ new_name = "New"
                  /\ connections_flat(cmd.before.connections)
                        = <<new_full("Old", 0, "main", "B", 0, "main")>>)
                    => connections_flat(definition.connections)
                        = <<new_full("New", 0, "main", "B", 0, "main")>>

(* Node n1 was renamed from Old to New in the graph whose only edge is
   Old -> B, and the definition was uploaded *)
UpdateCascadesWitness ==
    /\ cmd.kind = "nodes_update"
    /\ cmd.node_id = "n1"
    /\ cmd.old_name = "Old"
    /\ cmd.name = Some("New")
    /\ cmd.result = "Ok"
    /\ IsSome(cmd.uploaded)
    /\ connections_flat(cmd.before.connections) = <<new_full("Old", 0, "main", "B", 0, "main")>>

----------------------------------------------------------------------------
(* The adjacency index on its own: built from a flat list, grown by
   add_to_map, and at last scanned by remove_from_map *)

IndexNames == {"A", "B"}
IndexEdges == EdgesOver(IndexNames)

(* The record of a remove_from_map call: its arguments, the map it was made
   on and what it returned *)
IndexCall(from_node, to_node, before, removed) ==
    [op |-> "remove_from_map", a |-> from_node, b |-> to_node, before |-> before,
     removed |-> removed]

InitIndex ==
    /\ edges \in SeqsUpTo(IndexEdges, MaxEdges)
    /\ cmap = None
    /\ flat = None
    /\ nodes = <<>> /\ connections = EmptyMap /\ last = NoCall
    /\ DiffIdle /\ CliIdle

AddToMap ==
    /\ IsSome(cmap)
    /\ last = NoCall
    /\ Len(edges) < MaxEdges
    /\ \E conn \in IndexEdges :
          /\ cmap' = Some(add_to_map(Unwrap(cmap), conn))
          /\ edges' = Append(edges, conn)
    /\ UNCHANGED <<flat, apiVars, diffVars, cliVars>>

RemoveFromMap ==
    /\ IsSome(cmap)
    /\ last = NoCall
    /\ \E from_node \in IndexNames \cup {"n1"}, to_node \in IndexNames \cup {"n1"} :
          LET r == remove_from_map(Unwrap(cmap), from_node, to_node)
          IN /\ cmap' = Some(r.map)
             /\ last' = IndexCall(from_node, to_node, Unwrap(cmap), r.removed)
    /\ UNCHANGED <<edges, flat, nodes, connections, diffVars, cliVars>>

NextIndex == Build \/ AddToMap \/ RemoveFromMap

SpecIndex == InitIndex /\ [][NextIndex]_vars

(* The endpoints of a map under one source, as (port type, port, position) *)
EndpointsUnder(map, s) ==
    IF s \in DOMAIN map
    THEN {<<ty, p, i>> \in (DOMAIN map[s]) \X (1..(MaxEdges + MaxPort + 2)) \X (1..(MaxEdges + 1)) :
             p <= Len(map[s][ty]) /\ i <= Len(map[s][ty][p])}
    ELSE {}

(* C11: remove_from_map(map, from, to) deletes exactly the endpoints under
   source `from`, in every port type and every port, whose target name is
   `to`; it returns true iff it deleted one; the source keys, the port-type
   keys and the length of every fan-out list are unchanged, every other
   source is untouched, and what remains of a slot is in its old order. *)
RemoveFromMapDeletesExactly ==
    last.op = "remove_from_map" =>
        LET before == last.before
            after == Unwrap(cmap)
            hit == {x \in EndpointsUnder(before, last.a) :
                       before[last.a][x[1]][x[2]][x[3]].node = last.b}
        IN /\ DOMAIN after = DOMAIN before
           /\ \A s \in DOMAIN before :
                 /\ DOMAIN after[s] = DOMAIN before[s]
                 /\ \A ty \in DOMAIN before[s] :
                       /\ Len(after[s][ty]) = Len(before[s][ty])
                       /\ \A p \in 1..Len(before[s][ty]) :
                             after[s][ty][p] =
                                 IF s = last.a
                                 THEN SelectSeq(before[s][ty][p], LAMBDA t : t.node # last.b)
                                 ELSE before[s][ty][p]
           /\ last.removed <=> hit # {}
           /\ Cardinality(EndpointsUnder(after, last.a))
                 = Cardinality(EndpointsUnder(before, last.a)) - Cardinality(hit)

(* A call that deleted the first of the two endpoints on the highest port of
   a fan-out list, whose lower ports are padding: the second endpoint stays *)
RemoveFromMapWitness ==
    /\ last.op = "remove_from_map"
    /\ last.removed
    /\ \E ty \in DOMAIN last.before[last.a] :
          /\ Len(last.before[last.a][ty]) = MaxPort + 1
          /\ Len(last.before[last.a][ty][MaxPort + 1]) = 2
          /\ last.before[last.a][ty][MaxPort + 1][1].node = last.b
          /\ Len(Unwrap(cmap)[last.a][ty][MaxPort + 1]) = 1

(* The edges inserted so far on one port of one source and port type, in
   the order of their insertion, and the endpoint an edge is stored as *)
SlotEdges(s, ty, p) ==
    SelectSeq(edges, LAMBDA e : e.source_node = s /\ e.source_type = ty /\ e.source_output = p)
EndpointOf(e) == ConnectionEndpoint(e.target_node, e.target_type, e.target_input)
Occurrences(seq, x) == Cardinality({j \in 1..Len(seq) : seq[j] = x})

(* What C12 says of every slot: the fan-out list reaches the port of every
   inserted edge, and each slot holds the endpoints of the edges inserted on
   it in the order of their insertion, so a port that received none is empty *)
SlotsInInsertionOrder(map) ==
    /\ \A i \in 1..Len(edges) :
          /\ edges[i].source_node \in DOMAIN map
          /\ edges[i].source_type \in DOMAIN map[edges[i].source_node]
          /\ Len(map[edges[i].source_node][edges[i].source_type]) >= edges[i].source_output + 1
    /\ \A s \in DOMAIN map : \A ty \in DOMAIN map[s] : \A p \in 1..Len(map[s][ty]) :
          map[s][ty][p] = [j \in 1..Len(SlotEdges(s, ty, p - 1)) |->
                              EndpointOf(SlotEdges(s, ty, p - 1)[j])]

(* C12 as stated: after to_connections_map or any sequence of add_to_map
   calls, the slot of every inserted edge exists, holds exactly one endpoint
   matching the edge, and is in insertion order. *)
InsertedEdgeHasOneEndpoint ==
    (IsSome(cmap) /\ last = NoCall) =>
        /\ SlotsInInsertionOrder(Unwrap(cmap))
        /\ \A i \in 1..Len(edges) :
              Occurrences(Unwrap(cmap)[edges[i].source_node][edges[i].source_type]
                                      [edges[i].source_output + 1],
                          EndpointOf(edges[i])) = 1

(* C12 amended: after to_connections_map or any sequence of add_to_map calls,
   the slot of every inserted edge exists, holds as many endpoints matching
   the edge as there were insertions of edges with that source name, port
   type, port and endpoint, and is in insertion order. *)
InsertedEdgeHasItsEndpoints ==
    (IsSome(cmap) /\ last = NoCall) =>
        /\ SlotsInInsertionOrder(Unwrap(cmap))
        /\ \A i \in 1..Len(edges) :
              Occurrences(Unwrap(cmap)[edges[i].source_node][edges[i].source_type]
                                      [edges[i].source_output + 1],
                          EndpointOf(edges[i]))
                 = Cardinality({j \in 1..Len(edges) : edges[j] = edges[i]})

(* Two different edges were inserted on the highest port of one source, the
   second by add_to_map, and the ports below are padding *)
InsertedEdgesWitness ==
    /\ IsSome(cmap)
    /\ last = NoCall
    /\ Len(edges) = 2
    /\ edges[1] # edges[2]
    /\ edges[1].source_node = edges[2].source_node
    /\ edges[1].source_type = edges[2].source_type
    /\ edges[1].source_output = MaxPort
    /\ edges[2].source_output = MaxPort
    /\ Unwrap(cmap) # to_connections_map(<<edges[1]>>)
    /\ Len(Unwrap(cmap)[edges[1].source_node][edges[1].source_type][1]) = 0

----------------------------------------------------------------------------
(* The validate command: fetch the stored workflow, validate it, and end
   with Ok or with ValidationFailed *)

SetType == "n8n-nodes-base.set"
TriggerTypes ==
    {"n8n-nodes-base.manualTrigger", "n8n-nodes-base.start", "custom.trigger",
     "custom.TRIGGER"}

ValidateNodes ==
    {NodeNew("n1", "A", ty) : ty \in TriggerTypes}
    \cup {NodeNew("n1", "Start", SetType), NodeNew("n2", "Start", SetType),
          NodeNew("n2", " ", SetType), NodeNew("n2", "B", SetType)}

ValidateEdges ==
    {new_full("A", 0, "main", "B", 0, "main"),
     new_full("B", 0, "main", "A", 0, "main"),
     new_full("Start", 0, "main", "Start", 0, "main"),
     new_full("A", MaxPort, "ai_tool", "A", 1, "ai_tool")}

ValidateNames == {"W", "", " \t"}

ValidateMaps == {to_connections_map(es) : es \in SeqsUpTo(ValidateEdges, MaxEdges)}

InitValidate ==
    /\ remote \in {Workflow(name, FALSE, ns, conns) :
                      name \in ValidateNames,
                      ns \in SeqsUpTo(ValidateNodes, MaxNodes),
                      conns \in ValidateMaps}
    /\ cmd = NoCmd
    /\ ApiIdle /\ RtIdle /\ DiffIdle

WorkflowsValidate ==
    /\ cmd = NoCmd
    /\ \E order \in KeyOrders :
          LET workflow == from_detail(get_workflow(remote)).workflow
              issues == validate_workflow_in(workflow, order)
          IN cmd' = [kind |-> "workflows_validate", issues |-> issues,
                     valid |-> is_valid(issues),
                     result |-> IF is_valid(issues) THEN "Ok" ELSE "ValidationFailed"]
    /\ UNCHANGED <<remote, apiVars, rtVars, diffVars>>

NextValidate == WorkflowsValidate

SpecValidate == InitValidate /\ [][NextValidate]_vars

Validated == cmd.kind = "workflows_validate"
NonEmptyValidated == Validated /\ Len(remote.nodes) > 0

(* How many issues of a severity have a message, or a message beginning *)
IssuesWith(severity, message) ==
    Cardinality({i \in 1..Len(cmd.issues) :
        cmd.issues[i].severity = severity /\ cmd.issues[i].message = message})
IssuesStarting(severity, prefix) ==
    Cardinality({i \in 1..Len(cmd.issues) :
        cmd.issues[i].severity = severity /\ StartsWith(cmd.issues[i].message, prefix)})
ErrorCount == Cardinality({i \in 1..Len(cmd.issues) : cmd.issues[i].severity = "Error"})

NodeIds == {"n1", "n2"}
NodeNames == {"A", "B", "Start", " "}
EdgesOfRemote == connections_flat(remote.connections)
NoDangling ==
    \A e \in Range(EdgesOfRemote) :
        e.source_node \in node_names(remote.nodes) /\ e.target_node \in node_names(remote.nodes)

(* C13: in a non-empty graph every node whose id an earlier node has gets
   one duplicate-id Error and every node whose name an earlier node has gets
   one duplicate-name Error, so k nodes sharing a value give k-1 Errors; two
   nodes both named Start give exactly one such Error, it mentions Start, and
   it is the only Error when nothing else is wrong with the graph. *)
DuplicatesFlaggedAfterFirst ==
    NonEmptyValidated =>
        LET ns == remote.nodes
            LaterId == {i \in 1..Len(ns) : \E j \in 1..(i - 1) : ns[j].id = ns[i].id}
            LaterName == {i \in 1..Len(ns) : \E j \in 1..(i - 1) : ns[j].name = ns[i].name}
        IN /\ IssuesStarting("Error", "Duplicate node ID: ") = Cardinality(LaterId)
           /\ IssuesStarting("Error", "Duplicate node name: ") = Cardinality(LaterName)
           /\ IssuesStarting("Warning", "Duplicate node") = 0
           /\ \A v \in NodeIds :
                 LET k == Cardinality({i \in 1..Len(ns) : ns[i].id = v})
                 IN IssuesWith("Error", "Duplicate node ID: " \o v) = IF k = 0 THEN 0 ELSE k - 1
           /\ \A v \in NodeNames :
                 LET k == Cardinality({i \in 1..Len(ns) : ns[i].name = v})
                 IN IssuesWith("Error", "Duplicate node name: " \o v) = IF k = 0 THEN 0 ELSE k - 1
           /\ (Len(ns) = 2 /\ ns[1].name = "Start" /\ ns[2].name = "Start") =>
                 /\ IssuesStarting("Error", "Duplicate node name: ") = 1
                 /\ Cardinality({i \in 1..Len(cmd.issues) :
                        /\ cmd.issues[i].severity = "Error"
                        /\ Contains(cmd.issues[i].message, "Start")}) = 1
                 /\ (ns[1].id # ns[2].id /\ trim(remote.name) # "" /\ NoDangling)
                       => ErrorCount = 1

(* Two nodes of different ids both named Start, in a graph with a name and
   no edge, were validated: one Error *)
DuplicatesWitness ==
    /\ Validated
    /\ Len(remote.nodes) = 2
    /\ remote.nodes[1].name = "Start" /\ remote.nodes[2].name = "Start"
    /\ remote.nodes[1].id # remote.nodes[2].id
    /\ remote.name = "W"
    /\ remote.connections = EmptyMap
    /\ ErrorCount = 1
    /\ ~cmd.valid

(* C14: in a non-empty graph each edge of the flattened connections gets one
   Error naming its source if the source is no node name and one Error naming
   its target if the target is no node name, and there is no other
   dangling-reference Error; a single edge from a node to a name that is no
   node gives exactly one, citing the target. *)
DanglingReferencesFlagged ==
    NonEmptyValidated =>
        LET es == EdgesOfRemote
            names == node_names(remote.nodes)
            BadSource == {c \in 1..Len(es) : es[c].source_node \notin names}
            BadTarget == {c \in 1..Len(es) : es[c].target_node \notin names}
        IN /\ IssuesStarting("Error", "Connection references non-existent source node: ")
                 = Cardinality(BadSource)
           /\ IssuesStarting("Error", "Connection references non-existent target node: ")
                 = Cardinality(BadTarget)
           /\ IssuesStarting("Error", "Connection references")
                 = Cardinality(BadSource) + Cardinality(BadTarget)
           /\ IssuesStarting("Warning", "Connection references") = 0
           /\ \A v \in NodeNames :
                 /\ IssuesWith("Error", "Connection references non-existent source node: " \o v)
                       = Cardinality({c \in BadSource : es[c].source_node = v})
                 /\ IssuesWith("Error", "Connection references non-existent target node: " \o v)
                       = Cardinality({c \in BadTarget : es[c].target_node = v})
           /\ (Len(es) = 1 /\ es[1].source_node \in names /\ es[1].target_node \notin names) =>
                 /\ IssuesStarting("Error", "Connection references") = 1
                 /\ \E i \in 1..Len(cmd.issues) :
                       cmd.issues[i] = ValidationIssue("Error",
                           "Connection references non-existent target node: " \o es[1].target_node,
                           Some(es[1].target_node))

(* The graph of the one node A with the one edge A -> B was validated *)
DanglingWitness ==
    /\ Validated
    /\ node_names(remote.nodes) = {"A"}
    /\ EdgesOfRemote = <<new_full("A", 0, "main", "B", 0, "main")>>
    /\ IssuesWith("Error", "Connection references non-existent target node: B") = 1

(* The classification of the specification: the type contains "trigger" in
   any mix of cases, or is one of the manual and start types *)
UpperLetters == "ABCDEFGHIJKLMNOPQRSTUVWXYZ"
LowerLetters == "abcdefghijklmnopqrstuvwxyz"
LowerChar(c) ==
    IF \E i \in 1..26 : SubSeq(UpperLetters, i, i) = c
    THEN LET i == CHOOSE i \in 1..26 : SubSeq(UpperLetters, i, i) = c
         IN SubSeq(LowerLetters, i, i)
    ELSE c
RECURSIVE LowerCase(_)
LowerCase(str) ==
    IF Len(str) = 0 THEN ""
    ELSE LowerChar(SubSeq(str, 1, 1)) \o LowerCase(SubSeq(str, 2, Len(str)))
ClassifiesAsTrigger(node) ==
    \/ Contains(LowerCase(node.node_type), "trigger")
    \/ node.node_type \in {"n8n-nodes-base.start", "n8n-nodes-base.manualTrigger"}

EndsWith(str, pat) ==
    Len(str) >= Len(pat) /\ SubSeq(str, Len(str) - Len(pat) + 1, Len(str)) = pat
IsBlank(str) == \A k \in 1..Len(str) : SubSeq(str, k, k) \in Whitespace

(* C15 as stated: a graph of a single node named A of a trigger type, with
   no edges, gets no Error. *)
SingleTriggerNodeHasNoError ==
    (/\ Validated
     /\ Len(remote.nodes) = 1
     /\ remote.nodes[1].name = "A"
     /\ ClassifiesAsTrigger(remote.nodes[1])
     /\ Len(EdgesOfRemote) = 0)
        => ErrorCount = 0 /\ cmd.valid

(* C15 amended: a graph that has a name other than white space, a single
   node named A of a trigger type and no edges gets no Error. *)
NamedSingleTriggerNodeHasNoError ==
    (/\ Validated
     /\ ~IsBlank(remote.name)
     /\ Len(remote.nodes) = 1
     /\ remote.nodes[1].name = "A"
     /\ ClassifiesAsTrigger(remote.nodes[1])
     /\ Len(EdgesOfRemote) = 0)
        => ErrorCount = 0 /\ cmd.valid

(* The graph W of the one start node A and no edge was validated: no issue *)
SingleTriggerNodeWitness ==
    /\ Validated
    /\ remote.name = "W"
    /\ Len(remote.nodes) = 1
    /\ remote.nodes[1].name = "A"
    /\ remote.nodes[1].node_type = "n8n-nodes-base.start"
    /\ Len(EdgesOfRemote) = 0
    /\ cmd.issues = <<>>
    /\ cmd.result = "Ok"

(* C16: on an empty node list the only issue is the Warning that the
   workflow has no nodes, whatever the graph name and the edges. *)
EmptyGraphOneWarning ==
    (Validated /\ Len(remote.nodes) = 0)
        => cmd.issues = <<ValidationIssue("Warning", "Workflow has no nodes", None)>>

(* A graph with no node, a blank name and a self-loop edge was validated *)
EmptyGraphWitness ==
    /\ Validated
    /\ Len(remote.nodes) = 0
    /\ remote.name = ""
    /\ \E e \in Range(EdgesOfRemote) : e.source_node = e.target_node
    /\ Len(cmd.issues) = 1

NotConnectedMessage(v) == "Node '" \o v \o "' is not connected to any other node"
ConnectedNames ==
    {e.source_node : e \in Range(EdgesOfRemote)} \cup {e.target_node : e \in Range(EdgesOfRemote)}

(* C17: in a non-empty graph a node gets the not-connected Warning iff it is
   not a trigger and its name is on no side of any edge of the flattened
   connections; a trigger never gets it. *)
NotConnectedIffNonTrigger ==
    NonEmptyValidated =>
        \A v \in NodeNames :
            IssuesWith("Warning", NotConnectedMessage(v))
               = Cardinality({i \in 1..Len(remote.nodes) :
                    /\ remote.nodes[i].name = v
                    /\ ~ClassifiesAsTrigger(remote.nodes[i])
                    /\ v \notin ConnectedNames})

NoTriggerMessage == "No trigger node found. Workflow can only be executed manually."
SelfLoopMessage(v) == "Node '" \o v \o "' has a self-loop connection"

(* C18: in a non-empty graph no rule suppresses another: there is one
   Warning if no node is a trigger, one self-loop Warning per edge from a
   name to itself, one Error per node with an empty or white-space name and
   one Error if the graph name is empty or white space, and the issue list is
   these together with what the duplicate, dangling-reference and
   not-connected rules report. *)
RulesAreIndependent ==
    NonEmptyValidated =>
        LET ns == remote.nodes
            es == EdgesOfRemote
        IN /\ (~\E i \in 1..Len(ns) : ClassifiesAsTrigger(ns[i]))
                 => IssuesWith("Warning", NoTriggerMessage) = 1
           /\ IssuesWith("Warning", NoTriggerMessage) <= 1
           /\ \A v \in NodeNames :
                 IssuesWith("Warning", SelfLoopMessage(v))
                    = Cardinality({c \in 1..Len(es) :
                          es[c].source_node = v /\ es[c].target_node = v})
           /\ IssuesWith("Error", "Node has empty name")
                 = Cardinality({i \in 1..Len(ns) : IsBlank(ns[i].name)})
           /\ IssuesWith("Error", "Workflow has empty name")
                 = IF IsBlank(remote.name) THEN 1 ELSE 0
           /\ Len(cmd.issues)
                 = IssuesWith("Warning", NoTriggerMessage)
                   + Cardinality({c \in 1..Len(es) : es[c].source_node = es[c].target_node})
                   + IssuesWith("Error", "Node has empty name")
                   + IssuesWith("Error", "Workflow has empty name")
                   + IssuesStarting("Error", "Duplicate node")
                   + IssuesStarting("Error", "Connection references")
                   + Cardinality({i \in 1..Len(cmd.issues) :
                         /\ cmd.issues[i].severity = "Warning"
                         /\ EndsWith(cmd.issues[i].message, "is not connected to any other node")})

(* A graph with a blank name, two nodes of one id of which one has a blank
   name, no trigger, a self-loop and a dangling edge was validated: every
   rule reported *)
RulesAreIndependentWitness ==
    /\ Validated
    /\ IsBlank(remote.name)
    /\ Len(remote.nodes) = 2
    /\ IssuesWith("Warning", NoTriggerMessage) = 1
    /\ IssuesWith("Warning", SelfLoopMessage("Start")) = 1
    /\ IssuesWith("Error", "Node has empty name") = 1
    /\ IssuesWith("Error", "Workflow has empty name") = 1
    /\ IssuesStarting("Error", "Duplicate node ID: ") = 1
    /\ IssuesStarting("Error", "Connection references") >= 1
    /\ IssuesWith("Warning", NotConnectedMessage(" ")) = 1

(* C19: is_valid is true iff no issue has Error severity, and the command
   ends with Ok exactly then; a graph whose issues are all Warnings is
   valid. *)
ValidIffNoError ==
    Validated =>
        /\ cmd.valid <=> ErrorCount = 0
        /\ cmd.valid <=> Len(errors(cmd.issues)) = 0
        /\ cmd.result = "Ok" <=> cmd.valid
        /\ (\A i \in 1..Len(cmd.issues) : cmd.issues[i].severity = "Warning") => cmd.valid
        /\ Len(errors(cmd.issues)) + Len(warnings(cmd.issues)) = Len(cmd.issues)

(* A graph with the no-trigger, a not-connected and a self-loop Warning and
   no Error was validated and found valid *)
ValidIffNoErrorWitness ==
    /\ Validated
    /\ cmd.valid
    /\ IssuesWith("Warning", NoTriggerMessage) = 1
    /\ IssuesWith("Warning", NotConnectedMessage("B")) = 1
    /\ IssuesWith("Warning", SelfLoopMessage("Start")) = 1
    /\ Len(cmd.issues) = 3

SameKey(e, f) ==
    /\ e.source_node = f.source_node /\ e.source_output = f.source_output
    /\ e.target_node = f.target_node /\ e.target_input = f.target_input

(* C20: the differ compares edges by source name, source port, target name
   and target port only: connections_added are exactly the edges of the new
   graph with a key no edge of the old graph has, connections_removed the
   edges of the old graph with a key no edge of the new graph has, each
   with its own type fields; an edge that differs in a port type only is in
   neither, and dangling names are compared like any other. *)
DiffComparesEdgesByKey ==
    IsSome(diff) =>
        LET d == Unwrap(diff)
            O == connections_flat(old.connections)
            N == connections_flat(new.connections)
        IN /\ SeqToBag(d.connections_added)
                 = SeqToBag(SelectSeq(N, LAMBDA e : ~\E f \in Range(O) : SameKey(e, f)))
           /\ SeqToBag(d.connections_removed)
                 = SeqToBag(SelectSeq(O, LAMBDA e : ~\E f \in Range(N) : SameKey(e, f)))
           /\ Range(d.connections_added) \subseteq Range(N)
           /\ Range(d.connections_removed) \subseteq Range(O)
           /\ \A e \in Range(O), f \in Range(N) :
                 SameKey(e, f) =>
                     e \notin Range(d.connections_removed) /\ f \notin Range(d.connections_added)

(* The main edge A -> B, B being no node, was compared with the same edge of
   the other port type and a new edge B -> A: one added, none removed *)
DiffComparesEdgesWitness ==
    /\ IsSome(diff)
    /\ connections_flat(old.connections) = <<new_full("A", 0, "main", "B", 0, "main")>>
    /\ new_full("A", 0, "ai_tool", "B", 0, "ai_tool") \in Range(connections_flat(new.connections))
    /\ "B" \notin node_names(old.nodes)
    /\ Unwrap(diff).connections_added = <<new_full("B", 0, "main", "A", 0, "main")>>
    /\ Unwrap(diff).connections_removed = <<>>

(* The entries of a change list of one kind *)
ChangesOf(changes, kind) == SelectSeq(changes, LAMBDA c : c.kind = kind)
Count(b) == IF b THEN 1 ELSE 0

(* C21: for every id in both graphs the node is in nodes_modified iff its
   two versions differ in name, type, position, disabled or parameters; its
   change list has exactly one entry per differing field, with the old and
   the new value (the parameters entry with the diff text); a node with no
   differing field is left out. Moving A from (0,0) to (100,0) gives the one
   entry PositionChanged((0,0),(100,0)) and a diff that is not empty. *)
ModifiedIffFieldDiffers ==
    IsSome(diff) =>
        LET d == Unwrap(diff)
        IN /\ \A id \in IdsOf(old.nodes) \cap IdsOf(new.nodes) :
                 LET o == LastOfId(old.nodes, id)
                     n == LastOfId(new.nodes, id)
                     entries == SelectSeq(d.nodes_modified, LAMBDA m : m.node_id = id)
                 IN /\ Len(entries) = Count(NodesDiffer(o, n))
                    /\ \A k \in 1..Len(entries) :
                          LET ch == entries[k].changes
                          IN /\ ChangesOf(ch, "NameChanged")
                                   = IF o.name # n.name
                                     THEN <<NodeChange("NameChanged", o.name, n.name)>> ELSE <<>>
                             /\ ChangesOf(ch, "TypeChanged")
                                   = IF o.node_type # n.node_type
                                     THEN <<NodeChange("TypeChanged", o.node_type, n.node_type)>>
                                     ELSE <<>>
                             /\ ChangesOf(ch, "PositionChanged")
                                   = IF o.position # n.position
                                     THEN <<NodeChange("PositionChanged",
                                                       <<o.position.x, o.position.y>>,
                                                       <<n.position.x, n.position.y>>)>>
                                     ELSE <<>>
                             /\ ChangesOf(ch, "DisabledChanged")
                                   = IF o.disabled # n.disabled
                                     THEN <<NodeChange("DisabledChanged", o.disabled, n.disabled)>>
                                     ELSE <<>>
                             /\ Len(ChangesOf(ch, "ParametersChanged"))
                                   = Count(o.parameters # n.parameters)
                             /\ \A c \in Range(ChangesOf(ch, "ParametersChanged")) :
                                   \E l \in Range(c.unified) : l[1] \in {"-", "+"}
                             /\ Len(ch) = Count(o.name # n.name) + Count(o.node_type # n.node_type)
                                          + Count(o.position # n.position)
                                          + Count(o.disabled # n.disabled)
                                          + Count(o.parameters # n.parameters)
                             /\ entries[k].node_name = o.name
           /\ ModifiedIds(d) \subseteq IdsOf(old.nodes) \cap IdsOf(new.nodes)
           /\ (/\ old.nodes = <<DiffNode("n1", "base")>>
               /\ new.nodes = <<DiffNode("n1", "moved")>>)
                 => /\ d.nodes_modified =
                         <<[node_id |-> "n1", node_name |-> "A",
                            changes |-> <<NodeChange("PositionChanged", <<0, 0>>, <<100, 0>>)>>]>>
                    /\ ~is_empty(d)

(* Node A at (0,0) was compared with node A at (100,0), in graphs without
   edges *)
ModifiedWitness ==
    /\ IsSome(diff)
    /\ old.nodes = <<DiffNode("n1", "base")>>
    /\ new.nodes = <<DiffNode("n1", "moved")>>
    /\ old.connections = EmptyMap /\ new.connections = EmptyMap
    /\ Len(Unwrap(diff).nodes_modified) = 1

(* C22: a node is a trigger iff its type contains "trigger" in any mix of
   upper and lower case or is one of the manual and start types, and
   has_trigger is true iff some node of the graph is one. *)
TriggerIsCaseInsensitive ==
    Validated =>
        /\ \A i \in 1..Len(remote.nodes) :
              is_trigger(remote.nodes[i]) <=> ClassifiesAsTrigger(remote.nodes[i])
        /\ has_trigger(remote.nodes)
              <=> \E i \in 1..Len(remote.nodes) : ClassifiesAsTrigger(remote.nodes[i])
        /\ Len(remote.nodes) > 0 =>
              (IssuesWith("Warning", NoTriggerMessage) = 0
                 <=> \E i \in 1..Len(remote.nodes) : ClassifiesAsTrigger(remote.nodes[i]))

----------------------------------------------------------------------------
(* Decoding the documents the platform may answer with *)

DecodeSettings ==
    {Null, Mistyped, Typed(DefaultSettings), Typed(WorkflowSettings(Some("UTC"), Some("v1")))}

DecodeDetails ==
    {WorkflowDetail("W", active, ns, conns, settings) :
        active \in BOOLEAN,
        ns \in {Mistyped} \cup {Typed(x) : x \in SeqsUpTo(ApiNodes, MaxNodes)},
        conns \in {Mistyped} \cup {Typed(to_connections_map(es)) : es \in SeqsUpTo(ApiEdges, 1)},
        settings \in DecodeSettings}

InitDecode ==
    /\ remote \in DecodeDetails
    /\ cmd = NoCmd
    /\ ApiIdle /\ RtIdle /\ DiffIdle

FromDetail ==
    /\ cmd = NoCmd
    /\ cmd' = [kind |-> "from_detail", out |-> from_detail(remote)]
    /\ UNCHANGED <<remote, apiVars, rtVars, diffVars>>

NextDecode == FromDetail

SpecDecode == InitDecode /\ [][NextDecode]_vars

(* C23: decoding fails with an error whenever the nodes, the connections or
   the settings of the document have a field of a wrong type, and a document
   that decodes has each part as the document gives it, none replaced by a
   default. *)
DecodeNeverDefaults ==
    cmd.kind = "from_detail" =>
        /\ (\/ remote.nodes.kind = "mistyped"
            \/ remote.connections.kind = "mistyped"
            \/ remote.settings.kind = "mistyped")
              => cmd.out.result = "InvalidInput"
        /\ cmd.out.result = "Ok" =>
              /\ remote.nodes = Typed(cmd.out.workflow.nodes)
              /\ remote.connections = Typed(cmd.out.workflow.connections)
              /\ remote.settings \in {Null, Typed(cmd.out.settings)}


-----------------------------------------------------------------------------
(* Placement of a new node: auto_position reads the x of every node and adds
   200 in i32.  The sum leaves the range of i32 when the largest x is above
   I32Max - 200; the addition then panics in a build with overflow checks and
   wraps round in one without, and which of the two the build has is not
   fixed by the sources. *)

I32Max == 2147483647
I32Min == (-2147483647) - 1

(* a + b in i32 without overflow checks, for b >= 0: the sum modulo 2^32,
   computed without leaving the range *)
wrapping_add(a, b) ==
    IF a > I32Max - b THEN I32Min + ((a - (I32Max - b)) - 1) ELSE a + b

(* a + b in i32 with overflow checks, for b >= 0 *)
checked_add(a, b) == IF a > I32Max - b THEN None ELSE Some(a + b)

RECURSIVE max_x(_)
max_x(ns) ==
    IF ns = <<>> THEN None
    ELSE LET rest == max_x(Tail(ns))
         IN  IF IsSome(rest) /\ Unwrap(rest) > Head(ns).position.x THEN rest
             ELSE Some(Head(ns).position.x)

auto_position(workflow, overflow_checks) ==
    LET m == UnwrapOr(max_x(workflow.nodes), 0)
    IN  IF overflow_checks
        THEN IF IsSome(checked_add(m, 200))
             THEN [result |-> "Ok", position |-> Position(Unwrap(checked_add(m, 200)), 100)]
             ELSE [result |-> "panic", position |-> Position(0, 0)]
        ELSE [result |-> "Ok", position |-> Position(wrapping_add(m, 200), 100)]

PositionXs == {I32Min, -300, 0, 100, I32Max - 200, I32Max - 199, I32Max}

PlacedNode(id, x) == [NodeNew(id, id, "set") EXCEPT !.position = Position(x, 0)]

PlacedNodes == {PlacedNode(id, x) : id \in {"n1", "n2"}, x \in PositionXs}

InitPosition ==
    /\ remote \in {Workflow("W", FALSE, ns, EmptyMap) : ns \in SeqsUpTo(PlacedNodes, MaxNodes)}
    /\ cmd = NoCmd
    /\ ApiIdle /\ RtIdle /\ DiffIdle

AutoPosition ==
    /\ cmd = NoCmd
    /\ \E overflow_checks \in BOOLEAN :
          cmd' = [kind |-> "auto_position", before |-> remote,
                  out |-> auto_position(remote, overflow_checks)]
    /\ UNCHANGED <<nodes, connections, last, edges, cmap, flat, old, new, diff, remote>>

NextPosition == AutoPosition

SpecPosition == InitPosition /\ [][NextPosition]_vars

Placed == cmd # NoCmd /\ cmd.kind = "auto_position"

(* C24: auto_position never fails, leaves the graph unchanged, and returns a
   position with y = 100 whose x is strictly greater than the x of every
   node of the graph.  Violated: with a node at x above I32Max - 200 the
   addition panics or wraps round to a negative x. *)
AutoPositionIsRightOfAll ==
    Placed =>
        /\ cmd.out.result = "Ok"
        /\ cmd.before = remote
        /\ cmd.out.position.y = 100
        /\ \A i \in 1..Len(remote.nodes) :
              cmd.out.position.x > remote.nodes[i].position.x


-----------------------------------------------------------------------------
(* The node and connection commands of main.rs, each run once against the
   workflow stored on the platform: fetch, decode, look the node or the edge
   up, mutate the decoded graph, upload.  Out is what a command ends with and
   the definition it sent, if it sent one. *)

Out(result, uploaded) == [result |-> result, uploaded |-> uploaded]

(* The confirmation prompt of the remove commands: passed when --force is
   given or the line read from stdin is y *)
Confirmed(force, answer) == force \/ answer = "y"

nodes_get(detail, node_id) ==
    LET decoded == from_detail(detail)
    IN IF decoded.result # "Ok" THEN Out("InvalidInput", None)
       ELSE IF find_node(decoded.workflow.nodes, node_id) = None
       THEN Out("NodeNotFound", None)
       ELSE Out("Ok", None)

nodes_remove(detail, node_id, force, answer) ==
    LET decoded == from_detail(detail)
        workflow == decoded.workflow
    IN IF decoded.result # "Ok" THEN Out("InvalidInput", None)
       ELSE IF find_node(workflow.nodes, node_id) = None
       THEN Out("NodeNotFound", None)
       ELSE IF ~Confirmed(force, answer) THEN Out("Cancelled", None)
       ELSE LET after == remove_node(workflow.nodes, workflow.connections, node_id)
            IN Out("Ok", Some(to_definition([workflow EXCEPT
                                 !.nodes = after.nodes,
                                 !.connections = after.connections])))

nodes_move(detail, node_id, position) ==
    LET decoded == from_detail(detail)
        workflow == decoded.workflow
    IN IF decoded.result # "Ok" THEN Out("InvalidInput", None)
       ELSE IF find_node(workflow.nodes, node_id) = None
       THEN Out("NodeNotFound", None)
       ELSE LET pos == Min(Matches(workflow.nodes, node_id))
            IN Out("Ok", Some(to_definition([workflow EXCEPT
                                 !.nodes[pos].position = Position(position[1], position[2])])))

connections_add(detail, from, to, output_index, input_index, type) ==
    LET decoded == from_detail(detail)
        workflow == decoded.workflow
    IN IF decoded.result # "Ok" THEN Out("InvalidInput", None)
       ELSE IF get_node_name(workflow.nodes, from) = None THEN Out("NodeNotFound", None)
       ELSE IF get_node_name(workflow.nodes, to) = None THEN Out("NodeNotFound", None)
       ELSE LET conn == new_full(Unwrap(get_node_name(workflow.nodes, from)), output_index,
                                 type, Unwrap(get_node_name(workflow.nodes, to)),
                                 input_index, type)
            IN Out("Ok", Some(to_definition([workflow EXCEPT
                                 !.connections = add_connection(@, conn)])))

connections_remove(detail, from, to, force, answer) ==
    LET decoded == from_detail(detail)
        workflow == decoded.workflow
    IN IF decoded.result # "Ok" THEN Out("InvalidInput", None)
       ELSE LET from_name == UnwrapOr(get_node_name(workflow.nodes, from), from)
                to_name == UnwrapOr(get_node_name(workflow.nodes, to), to)
                after == remove_connection(workflow.nodes, workflow.connections,
                                           from_name, to_name)
            IN IF ~Confirmed(force, answer) THEN Out("Cancelled", None)
               ELSE IF ~after.removed THEN Out("ConnectionNotFound", None)
               ELSE Out("Ok", Some(to_definition([workflow EXCEPT
                                      !.connections = after.map])))

CommandStrs == {"n1", "n2", "A", "B", "New"}
CommandNodeLists ==
    {<<CliNode("n1", "A"), CliNode("n2", "B")>>, <<CliNode("n1", "A")>>}
CommandEdges ==
    {new_full("A", 0, "main", "B", 0, "main"),
     new_full("B", MaxPort, "main", "A", 0, "main"),
     new_full("A", 0, "ai_tool", "A", 1, "ai_tool")}
Answers == {"y", "n"}

(* What a command leaves behind: its kind, whether what it addressed was in
   the fetched graph, the graph it fetched, what it ended with and what it
   sent *)
Command(kind, addressed, before, out) ==
    [kind |-> kind, addressed |-> addressed, before |-> before,
     result |-> out.result, uploaded |-> out.uploaded]

Stored(out) == IF IsSome(out.uploaded) THEN update_workflow(remote, Unwrap(out.uploaded))
               ELSE remote

NodeAddressed(node_id) == IsSome(find_node(remote.nodes, node_id))

(* An edge from the one name to the other is in the fetched graph, the names
   resolved as the command resolves them *)
EdgeAddressed(from, to) ==
    LET from_name == UnwrapOr(get_node_name(remote.nodes, from), from)
        to_name == UnwrapOr(get_node_name(remote.nodes, to), to)
    IN \E e \in Range(connections_flat(remote.connections)) :
          e.source_node = from_name /\ e.target_node = to_name

InitCommands ==
    /\ remote \in {Workflow("W", FALSE, ns, to_connections_map(es)) :
                      ns \in CommandNodeLists, es \in SeqsUpTo(CommandEdges, MaxEdges)}
    /\ cmd = NoCmd
    /\ ApiIdle /\ RtIdle /\ DiffIdle

NodesGet ==
    /\ cmd = NoCmd
    /\ \E node_id \in CommandStrs :
          LET out == nodes_get(get_workflow(remote), node_id)
          IN /\ cmd' = Command("nodes_get", NodeAddressed(node_id), remote, out)
             /\ remote' = Stored(out)
    /\ UNCHANGED <<apiVars, rtVars, diffVars>>

NodesRemove ==
    /\ cmd = NoCmd
    /\ \E node_id \in CommandStrs, force \in BOOLEAN, answer \in Answers :
          LET out == nodes_remove(get_workflow(remote), node_id, force, answer)
          IN /\ cmd' = Command("nodes_remove", NodeAddressed(node_id), remote, out)
             /\ remote' = Stored(out)
    /\ UNCHANGED <<apiVars, rtVars, diffVars>>

NodesUpdateCommand ==
    /\ cmd = NoCmd
    /\ \E node_id \in CommandStrs, name \in {None, Some("New")}, opt \in UpdateOptions :
          LET done == nodes_update(get_workflow(remote), node_id, name, opt.position,
                                   opt.node_config, opt.replace, opt.disabled)
              out == Out(done.result, done.uploaded)
          IN /\ cmd' = Command("nodes_update", NodeAddressed(node_id), remote, out)
             /\ remote' = Stored(out)
    /\ UNCHANGED <<apiVars, rtVars, diffVars>>

NodesMove ==
    /\ cmd = NoCmd
    /\ \E node_id \in CommandStrs, position \in {<<100, 0>>, <<0, 50>>} :
          LET out == nodes_move(get_workflow(remote), node_id, position)
          IN /\ cmd' = Command("nodes_move", NodeAddressed(node_id), remote, out)
             /\ remote' = Stored(out)
    /\ UNCHANGED <<apiVars, rtVars, diffVars>>

ConnectionsAdd ==
    /\ cmd = NoCmd
    /\ \E from \in CommandStrs, to \in CommandStrs, type \in PortTypes :
          LET out == connections_add(get_workflow(remote), from, to, 0, 0, type)
          IN /\ cmd' = Command("connections_add",
                               NodeAddressed(from) /\ NodeAddressed(to), remote, out)
             /\ remote' = Stored(out)
    /\ UNCHANGED <<apiVars, rtVars, diffVars>>

ConnectionsRemove ==
    /\ cmd = NoCmd
    /\ \E from \in CommandStrs, to \in CommandStrs, force \in BOOLEAN, answer \in Answers :
          LET out == connections_remove(get_workflow(remote), from, to, force, answer)
          IN /\ cmd' = Command("connections_remove", EdgeAddressed(from, to), remote, out)
             /\ remote' = Stored(out)
    /\ UNCHANGED <<apiVars, rtVars, diffVars>>

NextCommands ==
    \/ NodesGet
    \/ NodesRemove
    \/ NodesUpdateCommand
    \/ NodesMove
    \/ ConnectionsAdd
    \/ ConnectionsRemove

SpecCommands == InitCommands /\ [][NextCommands]_vars

CommandKinds ==
    {"nodes_get", "nodes_remove", "nodes_update", "nodes_move", "connections_add",
     "connections_remove"}

Ran == cmd # NoCmd /\ cmd.kind \in CommandKinds

(* C25: a command whose node or edge is not in the fetched graph ends with
   NodeNotFound or ConnectionNotFound and sends no update; a command that
   sends an update has ended Ok, and the stored graph is the one it sent.
   Violated: connections remove asks for the confirmation before it looks
   the edge up, and ends with Cancelled when the answer is not y. *)
MissesEndNotFound ==
    Ran =>
        /\ ~cmd.addressed =>
              /\ cmd.result \in {"NodeNotFound", "ConnectionNotFound"}
              /\ cmd.uploaded = None
              /\ remote = cmd.before
        /\ IsSome(cmd.uploaded) =>
              /\ cmd.result = "Ok"
              /\ cmd.addressed
              /\ remote = update_workflow(cmd.before, Unwrap(cmd.uploaded))

(* No command sends an update for a node or an edge that is not in the
   fetched graph, whatever it ends with *)
MissesSendNothing ==
    Ran =>
        /\ ~cmd.addressed =>
              /\ cmd.result \in {"NodeNotFound", "ConnectionNotFound", "Cancelled"}
              /\ cmd.result = "Cancelled" => cmd.kind = "connections_remove"
              /\ cmd.uploaded = None
              /\ remote = cmd.before
        /\ IsSome(cmd.uploaded) =>
              /\ cmd.result = "Ok"
              /\ cmd.addressed
              /\ remote = update_workflow(cmd.before, Unwrap(cmd.uploaded))


-----------------------------------------------------------------------------
(* The edit command: the fetched graph is written to a file, the editor runs
   on it, and what the editor left is parsed, validated and uploaded.  A run
   of the editor is what the command can see of it: whether it started, its
   exit status, whether the modification time of the file changed, and the
   text the file holds afterwards. *)

EditorRun(launched, success, touched, content) ==
    [launched |-> launched, success |-> success, touched |-> touched, content |-> content]

(* editor/external.rs *)
edit_workflow(workflow, run) ==
    IF ~run.launched THEN [result |-> "EditorFailed", edited |-> None]
    ELSE IF ~run.success THEN [result |-> "EditorFailed", edited |-> None]
    ELSE IF ~run.touched THEN [result |-> "NoChanges", edited |-> None]
    ELSE IF from_str(run.content) = None THEN [result |-> "InvalidInput", edited |-> None]
    ELSE [result |-> "Ok", edited |-> from_str(run.content)]

(* error.rs: the exit code of the process, 0 when run() returns Ok *)
exit_code(result) ==
    CASE result = "Ok" -> 0
      [] result = "NoChanges" -> 0
      [] result = "ValidationFailed" -> 65
      [] result = "InvalidInput" -> 65
      [] result = "EditorFailed" -> 74
      [] result = "NodeNotFound" -> 69
      [] result = "ConnectionNotFound" -> 69
      [] result = "Cancelled" -> 130
      [] OTHER -> 1

(* workflows edit uploading whatever the editor left *)
workflows_edit_unvalidated(detail, run, no_validate, order) ==
    LET decoded == from_detail(detail)
    IN IF decoded.result # "Ok" THEN Out("InvalidInput", None)
       ELSE LET done == edit_workflow(decoded.workflow, run)
            IN IF done.result # "Ok" THEN Out(done.result, None)
               ELSE Out("Ok", Some(to_definition(Unwrap(done.edited))))

workflows_edit(detail, run, no_validate, order) ==
    LET decoded == from_detail(detail)
    IN IF decoded.result # "Ok" THEN Out("InvalidInput", None)
       ELSE LET done == edit_workflow(decoded.workflow, run)
            IN IF done.result # "Ok" THEN Out(done.result, None)
               ELSE LET edited == Unwrap(done.edited)
                    IN IF ~no_validate /\ ~is_valid(validate_workflow_in(edited, order))
                       THEN Out("ValidationFailed", None)
                       ELSE Out("Ok", Some(to_definition(edited)))

EditNodes ==
    {NodeNew("n1", "A", "manualTrigger"), NodeNew("n1", "A", SetType),
     NodeNew("n2", "B", SetType), NodeNew("n2", "A", SetType)}
EditEdges ==
    {new_full("A", 0, "main", "B", 0, "main"),
     new_full("A", MaxPort, "main", "A", 0, "main")}
EditedGraphs ==
    {Workflow(name, FALSE, ns, to_connections_map(es)) :
        name \in {"W", ""}, ns \in SeqsUpTo(EditNodes, MaxNodes),
        es \in SeqsUpTo(EditEdges, MaxEdges)}

(* The runs of the editor: it does not start, it exits with a failure, it
   leaves the file as it was, it leaves text that is no JSON, or it leaves
   a graph *)
EditorRuns ==
    {EditorRun(FALSE, FALSE, FALSE, [valid |-> FALSE, value |-> EmptyObject])}
    \cup {EditorRun(TRUE, FALSE, touched, [valid |-> FALSE, value |-> EmptyObject]) :
             touched \in BOOLEAN}
    \cup {EditorRun(TRUE, TRUE, TRUE, [valid |-> FALSE, value |-> EmptyObject])}
    \cup {EditorRun(TRUE, TRUE, touched, [valid |-> TRUE, value |-> g]) :
             touched \in BOOLEAN, g \in EditedGraphs}

InitEdit ==
    /\ remote \in {Workflow("W", FALSE, <<NodeNew("n1", "A", "manualTrigger")>>, EmptyMap),
                   Workflow("W", FALSE, <<>>, EmptyMap)}
    /\ cmd = NoCmd
    /\ ApiIdle /\ RtIdle /\ DiffIdle

WorkflowsEdit ==
    /\ cmd = NoCmd
    /\ \E run \in EditorRuns, no_validate \in BOOLEAN, order \in KeyOrders :
          LET out == workflows_edit(get_workflow(remote), run, no_validate, order)
          IN /\ cmd' = [kind |-> "workflows_edit", run |-> run, no_validate |-> no_validate,
                        before |-> remote, result |-> out.result,
                        uploaded |-> out.uploaded, exit_code |-> exit_code(out.result)]
             /\ remote' = Stored(out)
    /\ UNCHANGED <<apiVars, rtVars, diffVars>>

NextEdit == WorkflowsEdit

SpecEdit == InitEdit /\ [][NextEdit]_vars

Edited == cmd # NoCmd /\ cmd.kind = "workflows_edit"

(* What the editor left, as a graph; the empty graph when it left none *)
LeftGraph ==
    IF cmd.run.content.valid THEN cmd.run.content.value ELSE Workflow("", FALSE, <<>>, EmptyMap)

LeftIsValid == \A order \in KeyOrders : is_valid(validate_workflow_in(LeftGraph, order))

(* What C26 says of every run of the edit command but the one on a file the
   editor left unmodified *)
EditValidatesBeforeUpload ==
    /\ (IsSome(cmd.uploaded) /\ ~cmd.no_validate) => LeftIsValid
    /\ IsSome(cmd.uploaded) =>
          /\ cmd.result = "Ok"
          /\ Unwrap(cmd.uploaded) = to_definition(LeftGraph)
          /\ remote = update_workflow(cmd.before, Unwrap(cmd.uploaded))
    /\ (/\ ~cmd.no_validate /\ cmd.run.launched /\ cmd.run.success /\ cmd.run.touched
        /\ cmd.run.content.valid /\ ~LeftIsValid)
          => cmd.result = "ValidationFailed"
    /\ cmd.result = "ValidationFailed"
          => cmd.uploaded = None /\ remote = cmd.before /\ ~cmd.no_validate

(* C26 as stated: unless validation is skipped the edited graph is uploaded
   only if validate reports no Error, a graph with an Error ends the command
   with ValidationFailed and nothing uploaded, and a file the editor leaves
   unmodified ends it with NoChanges, exit code 0, and nothing uploaded. *)
UnmodifiedEndsNoChanges ==
    Edited =>
        /\ EditValidatesBeforeUpload
        /\ ~cmd.run.touched =>
              /\ cmd.result = "NoChanges"
              /\ cmd.exit_code = 0
              /\ cmd.uploaded = None
              /\ remote = cmd.before

(* C26, amended: the same, the file left unmodified by an editor that exited
   with success; an editor that does not start or exits with a failure ends
   the command with EditorFailed, and nothing is uploaded then either. *)
UnmodifiedAfterSuccessEndsNoChanges ==
    Edited =>
        /\ EditValidatesBeforeUpload
        /\ ~cmd.run.touched =>
              /\ cmd.uploaded = None
              /\ remote = cmd.before
              /\ (cmd.run.launched /\ cmd.run.success)
                    => cmd.result = "NoChanges" /\ cmd.exit_code = 0
              /\ ~(cmd.run.launched /\ cmd.run.success)
                    => cmd.result = "EditorFailed" /\ cmd.exit_code = 74

(* The editor wrote a graph that validate finds an Error in, validation was
   not skipped, and the command ended with ValidationFailed without an upload *)
EditRejectedWitness ==
    /\ Edited
    /\ ~cmd.no_validate /\ cmd.run.touched /\ cmd.run.content.valid /\ ~LeftIsValid
    /\ cmd.result = "ValidationFailed"
    /\ cmd.uploaded = None


-----------------------------------------------------------------------------
(* C27: renameNodeInConnections(A, B) neither loses nor creates an edge:
   the flat list of the index is as long after the call as before it, also
   when B is already a source key.  Violated: the entry of A is inserted
   under B with HashMap::insert, which replaces the entry B had. *)
RenameKeepsEdgeCount ==
    last.op = "rename_node_in_connections"
        => EdgeCount(connections) = EdgeCount(last.connections)


-----------------------------------------------------------------------------
(* C28: removeNode(x) removes the node findNode(x) returns and no other, the
   other nodes keep their order, and every edge whose source and target are
   names of nodes that remain is still there as often as before, with its
   ports and types, also when several nodes share a name.  Violated: the
   edges are dropped by name, so those of a remaining node of the same name
   go with them. *)
RemoveNodeKeepsOtherEdges ==
    (last.op = "remove_node" /\ IsSome(find_node(last.nodes, last.a)))
        => /\ last.found = find_node(last.nodes, last.a)
           /\ nodes = RemoveAt(last.nodes, Min(Matches(last.nodes, last.a)))
           /\ \A e \in EdgesOf(last.connections) :
                 (e.source_node \in node_names(nodes) /\ e.target_node \in node_names(nodes))
                    => /\ e \in EdgesOf(connections)
                       /\ SeqToBag(connections_flat(connections))[e]
                             = SeqToBag(connections_flat(last.connections))[e]


-----------------------------------------------------------------------------
(* The ids of a list of nodes or of node diffs *)
AddedIds(d) == {d.nodes_added[i].id : i \in 1..Len(d.nodes_added)}
RemovedIds(d) == {d.nodes_removed[i].id : i \in 1..Len(d.nodes_removed)}

(* C29: the diff taken the other way round mirrors the diff: the ids of its
   removed nodes are the ids of the added ones and the reverse, its removed
   edges are the added ones as a multiset and the reverse, the same ids are
   modified, and it is empty iff the diff is. *)
DiffIsAntisymmetric ==
    IsSome(diff) =>
        LET d == Unwrap(diff)
            back == compare(new, old)
        IN /\ AddedIds(d) = RemovedIds(back)
           /\ RemovedIds(d) = AddedIds(back)
           /\ SeqToBag(d.connections_added) = SeqToBag(back.connections_removed)
           /\ SeqToBag(d.connections_removed) = SeqToBag(back.connections_added)
           /\ ModifiedIds(d) = ModifiedIds(back)
           /\ is_empty(d) <=> is_empty(back)

(* Two graphs were compared of which the old one has an edge twice that the
   new one has not, and the new one an edge the old one has not *)
DiffIsAntisymmetricWitness ==
    /\ IsSome(diff)
    /\ Len(Unwrap(diff).connections_removed) = 2
    /\ Unwrap(diff).connections_removed[1] = Unwrap(diff).connections_removed[2]
    /\ Len(Unwrap(diff).connections_added) = 1


-----------------------------------------------------------------------------
(* The edges of a graph by their key, as a multiset *)
KeyBag(w) ==
    LET flat_edges == connections_flat(w.connections)
    IN SeqToBag([i \in 1..Len(flat_edges) |-> ConnKey(flat_edges[i])])

(* C30: an empty diff means the two graphs have the same edges: their flat
   lists are equal as multisets of (source name, source port, target name,
   target port), repeated edges counted.  Violated: compare looks the keys
   up in a set, so an edge the one graph has twice and the other once is
   neither added nor removed. *)
EmptyDiffMeansSameEdges ==
    (IsSome(diff) /\ is_empty(Unwrap(diff))) => KeyBag(old) = KeyBag(new)

(* What holds instead: the two graphs have the same set of keys *)
EmptyDiffMeansSameKeys ==
    (IsSome(diff) /\ is_empty(Unwrap(diff))) => ConnKeys(old) = ConnKeys(new)

====
